---- MODULE Spec2Model ----
(***************************************************************************)
(* The multi-type worker pool of go-workerpool-pattern/workerpool2.go:     *)
(* NewWorkerPool.Run and NewWorkerPool.worker, with Go's buffered channel  *)
(* and sync.WaitGroup modelled by what they do (blocking send/receive,     *)
(* close, range-until-closed-and-drained, Add/Done/Wait and their panics). *)
(* Also: the demo program of go-workerpool-pattern/main.go, the goroutine  *)
(* demos of go-concurrency, and the two builders of go-builder-pattern.    *)
(***************************************************************************)
EXTENDS Integers, Sequences, FiniteSets, TLC

\* ------------------------------------------------------------------ bounds
MaxTasks == 3

MaxConc == 3

MaxRuns == 2

\* Batch length and concurrency explored when the pool is run more than once.
ReuseMaxTasks == 2

ReuseMaxConc == 2

\* main.go runs 20 tasks on 6 workers, then 13 tasks on 3 workers; the model
\* of main caps its batches at this size, and its pools at half of it
\* (rounded up), so that a pool has fewer workers than tasks, as in main.go.
DemoMaxTasks == 3

DemoMaxConc == (DemoMaxTasks + 1) \div 2

\* The squares demo has 9 inputs; the model takes the first few of them.
SquaresMaxNums == 3

Max(a, b) == IF a > b THEN a ELSE b

Min(a, b) == IF a < b THEN a ELSE b

\* Goroutine identifiers: one Run launches up to MaxConc workers (one spare
\* identifier), repeated Runs up to ReuseMaxConc each, main.go's two pools up
\* to DemoMaxConc each.
MaxWorkers ==
    Max(Max(MaxConc + 1, MaxRuns * ReuseMaxConc), 2 * DemoMaxConc + 1)

Workers == 1..MaxWorkers

Runs == 1..MaxRuns

TaskKeys == Runs \X (1..MaxTasks)

\* Concurrency is a Go int: the loop `i < wp.Concurrency` also runs with a
\* zero or negative value.
ConcurrencyLevels == {-1} \cup (0..MaxConc)

VARIABLES
    MultiTasks,     \* wp.MultiTasks: the batch, a sequence of task pointers
    Concurrency,    \* wp.Concurrency
    MultiTaskChan,  \* wp.MultiTaskChan: the channel the field refers to (0 = nil)
    chans,          \* the heap of channels: buf, cap, closed
    wg,             \* wp.wg: the WaitGroup counter
    pc,             \* position of the goroutine that calls Run
    i,              \* Run's worker-launch loop variable
    j,              \* Run's position in `range wp.MultiTasks` (1-based)
    run,            \* number of Run invocations so far on this pool
    nworkers,       \* number of goroutines launched so far
    wpc,            \* position of each worker goroutine
    wch,            \* the channel each worker's range statement evaluated
    wtask,          \* the task a worker has received
    wrun,           \* the Run invocation that launched each worker
    procLog,        \* history: the workers that invoked Process, per task
    finished,       \* history: number of Process calls that returned, per task
    signalled,      \* history: number of wg.Done calls made, per task
    closes,         \* history: number of close() calls, per channel
    panicked,       \* a runtime panic has killed the program
    stuck,          \* the tasks whose Process implementation never returns
    heap,           \* the task objects of the batch: their fields
    phase,          \* main.go: 0 = no demo, 1 / 2 = first / second demo
                    \* function, 3 = main has returned
    TaskChan,       \* main.go: wp.TaskChan of the first demo's pool, once
                    \* main has left WorkerPoolWithOneTypeOfTask
    doneLines,      \* main.go: number of "All tasks completed." lines printed
    single,         \* workerpool.go: a WorkerPool, its Run and its workers
    lead,           \* which of the two pools is stepped first when both run
    prog,           \* go-concurrency: the demo program that is running
    mpc,            \* go-concurrency: position of the demo's main goroutine
    gpc,            \* go-concurrency: position of each goroutine it launched
    di,             \* go-concurrency: main's loop variable
    dwg,            \* go-concurrency: the demo's WaitGroup counter
    dch,            \* go-concurrency: the value main has received from ch
    out,            \* go-concurrency: the lines printed so far
    dbuf,           \* go-concurrency: the buffer of the demo's channel
    dclosed,        \* go-concurrency: the demo's channel has been closed
    dval,           \* go-concurrency: the int main has received (0 = none)
    pizza,          \* ConcretePizzaBuilder.pizza
    pret,           \* what the last Build() of the pizza builder returned
    plast,          \* the last PizzaBuilder method called
    car,            \* CarBuilder.car
    refs,           \* the stage interfaces the caller holds a value of
    calls,          \* history: the CarBuilder methods called, with arguments
    cret            \* what the last Build() of the car builder returned

vars == <<MultiTasks, Concurrency, MultiTaskChan, chans, wg, pc, i, j, run,
          nworkers, wpc, wch, wtask, wrun, procLog, finished, signalled,
          closes, panicked, stuck, heap, phase, TaskChan, doneLines,
          single, lead,
          prog, mpc, gpc, di, dwg, dch, out, dbuf, dclosed, dval,
          pizza, pret, plast, car, refs, calls, cret>>

\* State of main.go's demo, of a hanging Process and of the single-type
\* pool, which Run and worker of the multi-type pool never write.
poolExtra == <<stuck, phase, TaskChan, doneLines, single, lead>>

\* State of the other programs of the repository.
goChan == <<dbuf, dclosed, dval>>

goVars == <<prog, mpc, gpc, di, dwg, dch, out, goChan>>

pizzaVars == <<pizza, pret, plast>>

carVars == <<car, refs, calls, cret>>

outside == <<goVars, pizzaVars, carVars>>

otherVars == <<heap, poolExtra, outside>>

\* Everything of the worker pool, for the programs that have none.
poolVars == <<MultiTasks, Concurrency, MultiTaskChan, chans, wg, pc, i, j,
              run, nworkers, wpc, wch, wtask, wrun, procLog, finished,
              signalled, closes, panicked, heap, poolExtra>>

\* Goroutines a go-concurrency demo launches: 4 in the WaitGroup demo, one
\* per input in the squares demo.
Goroutines == 1..Max(4, SquaresMaxNums)

\* The zero values of the two builders' products.
ZeroPizza ==
    [Size |-> "", Crust |-> "", Cheese |-> FALSE, Pepperoni |-> FALSE,
     Mushrooms |-> FALSE]

ZeroCar == [Make |-> "", Color |-> "", HasGPS |-> FALSE, IsElectric |-> FALSE]

\* The programs that are not running.
GoIdle ==
    /\ prog = "none"
    /\ mpc = "none"
    /\ gpc = [g \in Goroutines |-> "none"]
    /\ di = 0
    /\ dwg = 0
    /\ dch = ""
    /\ out = <<>>
    /\ dbuf = <<>>
    /\ dclosed = FALSE
    /\ dval = 0

PizzaIdle ==
    /\ pizza = ZeroPizza
    /\ pret = [pizza |-> ZeroPizza, err |-> ""]
    /\ plast = "none"

CarIdle ==
    /\ car = ZeroCar
    /\ refs = {}
    /\ calls = <<>>
    /\ cret = ZeroCar

\* ---------------------------------------------------------------- helpers
NilChan == [buf |-> <<>>, cap |-> 0, closed |-> FALSE]

NoTask == <<0, 0>>

N == Len(MultiTasks)

\* make(chan MultiTask, len(wp.MultiTasks))
ChanCapShort == Len(MultiTasks) - 1

ChanCap == Len(MultiTasks)

\* wp.wg.Add(len(wp.MultiTasks))
AddDeltaShort == Len(MultiTasks) - 1

AddDelta == Len(MultiTasks)

\* loop condition of `for i := 0; i < wp.Concurrency; i++`
LaunchMoreInclusive == i <= Concurrency

LaunchMore == i < Concurrency

\* loop condition of `for _, task := range wp.MultiTasks`
MoreToSendShort == j < Len(MultiTasks)

MoreToSend == j <= Len(MultiTasks)

\* wp.wg.Wait() unblocks when the counter is zero
WaitReadyEarly == wg <= 1

WaitReady == wg = 0

\* ------------------------------------------------------------------- Init
\* main.go: the multiTask literal of WorkerPoolWithMultipleTypeOfTasks.
EmailTask(id, subject, message) ==
    [kind |-> "EmailTask", EmailId |-> id, Subject |-> subject,
     Message |-> message]

ImageProcessingTask(url) == [kind |-> "ImageProcessingTask", ImageURL |-> url]

TaskLiteral ==
    << EmailTask("abc", "hello abc", "message 1"),
       ImageProcessingTask("ABC"),
       EmailTask("def", "hello def", "message 2"),
       ImageProcessingTask("DEF"),
       EmailTask("ghi", "hello ghi", "message 3"),
       ImageProcessingTask("GHI"),
       EmailTask("jkl", "hello jkl", "message 4"),
       ImageProcessingTask("JKL"),
       EmailTask("mno", "hello mno", "message 5"),
       ImageProcessingTask("MNO"),
       ImageProcessingTask("PQR"),
       ImageProcessingTask("STU"),
       EmailTask("VWX", "hello vwx", "message 6") >>

\* main.go: the tasks of WorkerPoolWithOneTypeOfTask, Task{Id: i + 1}.
Task(id) == [kind |-> "Task", Id |-> id]

\* workerpool.go: a WorkerPool value with its fields Tasks, Concurrency,
\* TaskChan (0 = nil, 1 = the channel Run makes) and wg, the channel object
\* ch, the position of the goroutine that calls Run on it and of its
\* workers, and the history of its Process calls, per Task.Id.
WorkerPool(tasks, c) ==
    [Tasks |-> tasks, Concurrency |-> c, TaskChan |-> 0, wg |-> 0,
     ch |-> NilChan, pc |-> "idle", i |-> 0, j |-> 0, nworkers |-> 0,
     wpc |-> [w \in Workers |-> "none"],
     wch |-> [w \in Workers |-> 0],
     wtask |-> [w \in Workers |-> Task(0)],
     procLog |-> [t \in 1..MaxTasks |-> <<>>],
     finished |-> [t \in 1..MaxTasks |-> 0],
     signalled |-> [t \in 1..MaxTasks |-> 0],
     closes |-> 0, panicked |-> FALSE]

\* No WorkerPool of workerpool.go is modelled on its own.
NoSinglePool ==
    /\ single = WorkerPool(<<>>, 0)
    /\ lead = "none"

\* main.go: the sizes of its two batches and of its two pools.
OneTypeTaskCount == 20

OneTypeConcurrency == 6

MultiTypeConcurrency == 3

\* A pool as main.go constructs it, holding the first n tasks of its list.
FreshPool ==
    /\ \E n \in 0..MaxTasks : MultiTasks = [t \in 1..n |-> t]
    /\ Concurrency \in ConcurrencyLevels
    /\ MultiTaskChan = 0
    /\ chans = [c \in Runs |-> NilChan]
    /\ wg = 0
    /\ pc = "idle"
    /\ i = 0
    /\ j = 0
    /\ run = 0
    /\ nworkers = 0
    /\ wpc = [w \in Workers |-> "none"]
    /\ wch = [w \in Workers |-> 0]
    /\ wtask = [w \in Workers |-> NoTask]
    /\ wrun = [w \in Workers |-> 0]
    /\ procLog = [k \in TaskKeys |-> <<>>]
    /\ finished = [k \in TaskKeys |-> 0]
    /\ signalled = [k \in TaskKeys |-> 0]
    /\ closes = [c \in Runs |-> 0]
    /\ panicked = FALSE
    /\ heap = [t \in 1..Len(MultiTasks) |-> TaskLiteral[t]]
    /\ phase = 0
    /\ TaskChan = 0
    /\ doneLines = 0

\* main.go builds its pool from tasks whose Process returns.
Init ==
    /\ FreshPool
    /\ stuck = {}
    /\ NoSinglePool
    /\ GoIdle
    /\ PizzaIdle
    /\ CarIdle

\* The pool of a program that has none.
PoolIdle ==
    /\ FreshPool
    /\ MultiTasks = <<>>
    /\ Concurrency = 0
    /\ stuck = {}
    /\ NoSinglePool

\* ------------------------------------------------------- Run (the caller)
\* main.go: wp.Run() on a freshly constructed pool.
CallRun ==
    /\ ~panicked
    /\ UNCHANGED otherVars
    /\ pc = "idle"
    /\ pc' = "make"
    /\ run' = run + 1
    /\ UNCHANGED <<MultiTasks, Concurrency, MultiTaskChan, chans, wg, i, j,
                   nworkers, wpc, wch, wtask, wrun, procLog, finished,
                   signalled, closes, panicked>>

\* A further wp.Run() on the same pool after the previous one returned.
RunAgain ==
    /\ ~panicked
    /\ UNCHANGED otherVars
    /\ pc = "returned"
    /\ run < MaxRuns
    /\ pc' = "make"
    /\ run' = run + 1
    /\ UNCHANGED <<MultiTasks, Concurrency, MultiTaskChan, chans, wg, i, j,
                   nworkers, wpc, wch, wtask, wrun, procLog, finished,
                   signalled, closes, panicked>>

\* wp.MultiTaskChan = make(chan MultiTask, len(wp.MultiTasks))
MakeChan ==
    /\ ~panicked
    /\ UNCHANGED otherVars
    /\ pc = "make"
    /\ chans' = [chans EXCEPT ![run] = [buf |-> <<>>, cap |-> ChanCap,
                                        closed |-> FALSE]]
    /\ MultiTaskChan' = run
    /\ i' = 0
    /\ pc' = "spawn"
    /\ UNCHANGED <<MultiTasks, Concurrency, wg, j, run, nworkers, wpc, wch,
                   wtask, wrun, procLog, finished, signalled, closes,
                   panicked>>

\* go wp.worker(); i++
StartWorker ==
    /\ ~panicked
    /\ UNCHANGED otherVars
    /\ pc = "spawn"
    /\ LaunchMore
    /\ nworkers' = nworkers + 1
    /\ wpc' = [wpc EXCEPT ![nworkers + 1] = "start"]
    /\ wrun' = [wrun EXCEPT ![nworkers + 1] = run]
    /\ i' = i + 1
    /\ UNCHANGED <<MultiTasks, Concurrency, MultiTaskChan, chans, wg, pc, j,
                   run, wch, wtask, procLog, finished, signalled, closes,
                   panicked>>

\* loop exit, then wp.wg.Add(len(wp.MultiTasks)); a negative counter panics
AddTasks ==
    /\ ~panicked
    /\ UNCHANGED otherVars
    /\ pc = "spawn"
    /\ ~LaunchMore
    /\ wg' = wg + AddDelta
    /\ panicked' = (wg + AddDelta < 0)
    /\ j' = 1
    /\ pc' = "send"
    /\ UNCHANGED <<MultiTasks, Concurrency, MultiTaskChan, chans, i, run,
                   nworkers, wpc, wch, wtask, wrun, procLog, finished,
                   signalled, closes>>

\* wp.MultiTaskChan <- task: panics on a closed channel, blocks while full
Send ==
    /\ ~panicked
    /\ UNCHANGED otherVars
    /\ pc = "send"
    /\ MoreToSend
    /\ MultiTaskChan # 0
    /\ LET c == chans[MultiTaskChan] IN
         IF c.closed
         THEN /\ panicked' = TRUE
              /\ UNCHANGED <<chans, j>>
         ELSE /\ Len(c.buf) < c.cap
              /\ chans' = [chans EXCEPT ![MultiTaskChan].buf =
                              Append(@, <<run, MultiTasks[j]>>)]
              /\ j' = j + 1
              /\ UNCHANGED panicked
    /\ UNCHANGED <<MultiTasks, Concurrency, MultiTaskChan, wg, pc, i, run,
                   nworkers, wpc, wch, wtask, wrun, procLog, finished,
                   signalled, closes>>

\* the seal forgotten: Run goes on to wait with the channel left open
CloseForgotten ==
    /\ ~panicked
    /\ UNCHANGED otherVars
    /\ pc = "send"
    /\ ~MoreToSend
    /\ pc' = "wait"
    /\ UNCHANGED <<MultiTasks, Concurrency, MultiTaskChan, chans, wg, i, j,
                   run, nworkers, wpc, wch, wtask, wrun, procLog, finished,
                   signalled, closes, panicked>>

\* close(wp.MultiTaskChan): panics on a closed channel
Close ==
    /\ ~panicked
    /\ UNCHANGED otherVars
    /\ pc = "send"
    /\ ~MoreToSend
    /\ MultiTaskChan # 0
    /\ closes' = [closes EXCEPT ![MultiTaskChan] = @ + 1]
    /\ IF chans[MultiTaskChan].closed
       THEN /\ panicked' = TRUE
            /\ UNCHANGED <<chans, pc>>
       ELSE /\ chans' = [chans EXCEPT ![MultiTaskChan].closed = TRUE]
            /\ pc' = "wait"
            /\ UNCHANGED panicked
    /\ UNCHANGED <<MultiTasks, Concurrency, MultiTaskChan, wg, i, j, run,
                   nworkers, wpc, wch, wtask, wrun, procLog, finished,
                   signalled>>

\* wp.wg.Wait(), then Run returns
Wait ==
    /\ ~panicked
    /\ UNCHANGED otherVars
    /\ pc = "wait"
    /\ WaitReady
    /\ pc' = "returned"
    /\ UNCHANGED <<MultiTasks, Concurrency, MultiTaskChan, chans, wg, i, j,
                   run, nworkers, wpc, wch, wtask, wrun, procLog, finished,
                   signalled, closes, panicked>>

\* --------------------------------------------------------------- worker()
\* The channel field of the pool a worker was launched on.  In main.go the
\* two demo functions use two pool objects: a worker of the first one still
\* reads that pool's field after main has moved on to the second.
FieldChan(w) ==
    IF phase >= 2 /\ wrun[w] = 1 THEN TaskChan ELSE MultiTaskChan

\* `for task := range wp.MultiTaskChan`: the range expression, a read of the
\* pool's field, is evaluated once, when the goroutine first runs.  The read
\* is not ordered with a later Run's write of the field; it yields whichever
\* channel the field holds when the goroutine gets to it.
WorkerRange(w) ==
    /\ ~panicked
    /\ UNCHANGED otherVars
    /\ wpc[w] = "start"
    /\ wch' = [wch EXCEPT ![w] = FieldChan(w)]
    /\ wpc' = [wpc EXCEPT ![w] = "range"]
    /\ UNCHANGED <<MultiTasks, Concurrency, MultiTaskChan, chans, wg, pc, i,
                   j, run, nworkers, wtask, wrun, procLog, finished,
                   signalled, closes, panicked>>

\* a receive that leaves the value in the buffer
WorkerRecvPeek(w) ==
    /\ ~panicked
    /\ UNCHANGED otherVars
    /\ wpc[w] = "range"
    /\ wch[w] # 0
    /\ Len(chans[wch[w]].buf) > 0
    /\ wtask' = [wtask EXCEPT ![w] = Head(chans[wch[w]].buf)]
    /\ wpc' = [wpc EXCEPT ![w] = "call"]
    /\ UNCHANGED <<MultiTasks, Concurrency, MultiTaskChan, chans, wg, pc, i,
                   j, run, nworkers, wch, wrun, procLog, finished, signalled,
                   closes, panicked>>

\* a receive that lets a worker take only the tasks assigned to it by index
WorkerRecvAssigned(w) ==
    /\ ~panicked
    /\ UNCHANGED otherVars
    /\ wpc[w] = "range"
    /\ wch[w] # 0
    /\ Len(chans[wch[w]].buf) > 0
    /\ Concurrency > 0
    /\ Head(chans[wch[w]].buf)[2] % Concurrency = w % Concurrency
    /\ wtask' = [wtask EXCEPT ![w] = Head(chans[wch[w]].buf)]
    /\ chans' = [chans EXCEPT ![wch[w]].buf = Tail(@)]
    /\ wpc' = [wpc EXCEPT ![w] = "call"]
    /\ UNCHANGED <<MultiTasks, Concurrency, MultiTaskChan, wg, pc, i, j, run,
                   nworkers, wch, wrun, procLog, finished, signalled, closes,
                   panicked>>

\* a receive that takes the value sent last
WorkerRecvLast(w) ==
    /\ ~panicked
    /\ UNCHANGED otherVars
    /\ wpc[w] = "range"
    /\ wch[w] # 0
    /\ Len(chans[wch[w]].buf) > 0
    /\ wtask' = [wtask EXCEPT ![w] =
                    chans[wch[w]].buf[Len(chans[wch[w]].buf)]]
    /\ chans' = [chans EXCEPT ![wch[w]].buf = SubSeq(@, 1, Len(@) - 1)]
    /\ wpc' = [wpc EXCEPT ![w] = "call"]
    /\ UNCHANGED <<MultiTasks, Concurrency, MultiTaskChan, wg, pc, i, j, run,
                   nworkers, wch, wrun, procLog, finished, signalled, closes,
                   panicked>>

\* the range loop receives the next buffered value (also after close)
WorkerRecv(w) ==
    /\ ~panicked
    /\ UNCHANGED otherVars
    /\ wpc[w] = "range"
    /\ wch[w] # 0
    /\ Len(chans[wch[w]].buf) > 0
    /\ wtask' = [wtask EXCEPT ![w] = Head(chans[wch[w]].buf)]
    /\ chans' = [chans EXCEPT ![wch[w]].buf = Tail(@)]
    /\ wpc' = [wpc EXCEPT ![w] = "call"]
    /\ UNCHANGED <<MultiTasks, Concurrency, MultiTaskChan, wg, pc, i, j, run,
                   nworkers, wch, wrun, procLog, finished, signalled, closes,
                   panicked>>

\* the range loop ends when the channel is closed and drained
WorkerExit(w) ==
    /\ ~panicked
    /\ UNCHANGED otherVars
    /\ wpc[w] = "range"
    /\ wch[w] # 0
    /\ Len(chans[wch[w]].buf) = 0
    /\ chans[wch[w]].closed
    /\ wpc' = [wpc EXCEPT ![w] = "exit"]
    /\ UNCHANGED <<MultiTasks, Concurrency, MultiTaskChan, chans, wg, pc, i,
                   j, run, nworkers, wch, wtask, wrun, procLog, finished,
                   signalled, closes, panicked>>

\* task.Process() is entered
ProcessBegin(w) ==
    /\ ~panicked
    /\ UNCHANGED otherVars
    /\ wpc[w] = "call"
    /\ procLog' = [procLog EXCEPT ![wtask[w]] = Append(@, w)]
    /\ wpc' = [wpc EXCEPT ![w] = "in"]
    /\ UNCHANGED <<MultiTasks, Concurrency, MultiTaskChan, chans, wg, pc, i,
                   j, run, nworkers, wch, wtask, wrun, finished, signalled,
                   closes, panicked>>

\* a Process that clears a field of its task before it returns
ProcessEndScribbles(w) ==
    /\ ~panicked
    /\ UNCHANGED <<poolExtra, outside>>
    /\ wpc[w] = "in"
    /\ wtask[w] \notin stuck
    /\ heap' = [heap EXCEPT ![wtask[w][2]] =
                   IF @.kind = "EmailTask"
                   THEN [@ EXCEPT !.Subject = ""]
                   ELSE [@ EXCEPT !.ImageURL = ""]]
    /\ finished' = [finished EXCEPT ![wtask[w]] = @ + 1]
    /\ wpc' = [wpc EXCEPT ![w] = "ret"]
    /\ UNCHANGED <<MultiTasks, Concurrency, MultiTaskChan, chans, wg, pc, i,
                   j, run, nworkers, wch, wtask, wrun, procLog, signalled,
                   closes, panicked>>

\* task.Process() returns (it prints and sleeps; it writes no field)
ProcessEnd(w) ==
    /\ ~panicked
    /\ UNCHANGED otherVars
    /\ wpc[w] = "in"
    /\ wtask[w] \notin stuck
    /\ finished' = [finished EXCEPT ![wtask[w]] = @ + 1]
    /\ wpc' = [wpc EXCEPT ![w] = "ret"]
    /\ UNCHANGED <<MultiTasks, Concurrency, MultiTaskChan, chans, wg, pc, i,
                   j, run, nworkers, wch, wtask, wrun, procLog, signalled,
                   closes, panicked>>

\* the wp.wg.Done() left out
WorkerDoneForgotten(w) ==
    /\ ~panicked
    /\ UNCHANGED otherVars
    /\ wpc[w] = "ret"
    /\ wpc' = [wpc EXCEPT ![w] = "range"]
    /\ wtask' = [wtask EXCEPT ![w] = NoTask]
    /\ UNCHANGED <<MultiTasks, Concurrency, MultiTaskChan, chans, wg, pc, i,
                   j, run, nworkers, wch, wrun, procLog, finished, signalled,
                   closes, panicked>>

\* wp.wg.Done(): a counter below zero panics
WorkerDone(w) ==
    /\ ~panicked
    /\ UNCHANGED otherVars
    /\ wpc[w] = "ret"
    /\ wg' = wg - 1
    /\ panicked' = (wg - 1 < 0)
    /\ signalled' = [signalled EXCEPT ![wtask[w]] = @ + 1]
    /\ wpc' = [wpc EXCEPT ![w] = "range"]
    /\ wtask' = [wtask EXCEPT ![w] = NoTask]
    /\ UNCHANGED <<MultiTasks, Concurrency, MultiTaskChan, chans, pc, i, j,
                   run, nworkers, wch, wrun, procLog, finished, closes>>

\* --------------------------------------------------------- specifications
RunStep ==
    \/ CallRun
    \/ MakeChan
    \/ StartWorker
    \/ AddTasks
    \/ Send
    \/ Close
    \/ Wait

WorkerStep(w) ==
    \/ WorkerRange(w)
    \/ WorkerRecv(w)
    \/ WorkerExit(w)
    \/ ProcessBegin(w)
    \/ ProcessEnd(w)
    \/ WorkerDone(w)

Next ==
    \/ RunStep
    \/ \E w \in Workers : WorkerStep(w)

\* One Run on a freshly constructed pool, as main.go uses it.
Spec == Init /\ [][Next]_vars

\* The same under the Go scheduler: every goroutine that can run eventually
\* does, and every Process call returns.
FairSpec ==
    /\ Init
    /\ [][Next]_vars
    /\ WF_vars(RunStep)
    /\ \A w \in Workers : WF_vars(WorkerStep(w))

NextReuse ==
    \/ Next
    \/ RunAgain

InitReuse ==
    /\ Init
    /\ Len(MultiTasks) <= ReuseMaxTasks
    /\ Concurrency <= ReuseMaxConc

\* Run may be invoked again on the same pool once it has returned.
SpecReuse == InitReuse /\ [][NextReuse]_vars

\* A batch in which the Process method of some tasks, or of none, never
\* returns (the MultiTask interface admits any implementation).
InitHang ==
    /\ FreshPool
    /\ stuck \in SUBSET {<<1, t>> : t \in 1..Len(MultiTasks)}
    /\ NoSinglePool
    /\ GoIdle
    /\ PizzaIdle
    /\ CarIdle

SpecHang == InitHang /\ [][Next]_vars

\* ---------------------------------------------------------------- main.go
\* The batch and pool sizes of main.go, capped.
OneTypeTasks == Min(OneTypeTaskCount, DemoMaxTasks)

OneTypeWorkers == Min(OneTypeConcurrency, DemoMaxConc)

MultiTypeTasks == Min(Len(TaskLiteral), DemoMaxTasks)

MultiTypeWorkers == Min(MultiTypeConcurrency, DemoMaxConc)

\* main() has entered WorkerPoolWithOneTypeOfTask and built its pool.
InitDemo ==
    /\ MultiTasks = [t \in 1..OneTypeTasks |-> t]
    /\ heap = [t \in 1..OneTypeTasks |-> Task(t)]
    /\ Concurrency = OneTypeWorkers
    /\ MultiTaskChan = 0
    /\ chans = [c \in Runs |-> NilChan]
    /\ wg = 0
    /\ pc = "idle"
    /\ i = 0
    /\ j = 0
    /\ run = 0
    /\ nworkers = 0
    /\ wpc = [w \in Workers |-> "none"]
    /\ wch = [w \in Workers |-> 0]
    /\ wtask = [w \in Workers |-> NoTask]
    /\ wrun = [w \in Workers |-> 0]
    /\ procLog = [k \in TaskKeys |-> <<>>]
    /\ finished = [k \in TaskKeys |-> 0]
    /\ signalled = [k \in TaskKeys |-> 0]
    /\ closes = [c \in Runs |-> 0]
    /\ panicked = FALSE
    /\ stuck = {}
    /\ phase = 1
    /\ TaskChan = 0
    /\ doneLines = 0
    /\ NoSinglePool
    /\ GoIdle
    /\ PizzaIdle
    /\ CarIdle

\* main going on while the first pool's Run is still at its barrier
OneTypeDoneEarly ==
    /\ ~panicked
    /\ phase = 1
    /\ pc = "wait"
    /\ doneLines' = doneLines + 1
    /\ pc' = "printed"
    /\ UNCHANGED <<MultiTasks, Concurrency, MultiTaskChan, chans, wg, i, j,
                   run, nworkers, wpc, wch, wtask, wrun, procLog, finished,
                   signalled, closes, panicked, stuck, heap, phase, TaskChan,
                   single, lead, outside>>

\* fmt.Println("All tasks completed.") of WorkerPoolWithOneTypeOfTask
OneTypeDone ==
    /\ ~panicked
    /\ phase = 1
    /\ pc = "returned"
    /\ doneLines' = doneLines + 1
    /\ pc' = "printed"
    /\ UNCHANGED <<MultiTasks, Concurrency, MultiTaskChan, chans, wg, i, j,
                   run, nworkers, wpc, wch, wtask, wrun, procLog, finished,
                   signalled, closes, panicked, stuck, heap, phase, TaskChan,
                   single, lead, outside>>

\* main() goes on to WorkerPoolWithMultipleTypeOfTasks, which builds its
\* tasks and a pool of its own: a new object, with no channel and a zero
\* counter.  The first pool stays reachable from its workers only.
NewMultiPool ==
    /\ ~panicked
    /\ phase = 1
    /\ pc = "printed"
    /\ phase' = 2
    /\ TaskChan' = MultiTaskChan
    /\ MultiTaskChan' = 0
    /\ MultiTasks' = [t \in 1..MultiTypeTasks |-> t]
    /\ heap' = [t \in 1..MultiTypeTasks |-> TaskLiteral[t]]
    /\ Concurrency' = MultiTypeWorkers
    /\ wg' = 0
    /\ pc' = "idle"
    /\ UNCHANGED <<chans, i, j, run, nworkers, wpc, wch, wtask, wrun,
                   procLog, finished, signalled, closes, panicked, stuck,
                   doneLines, single, lead,
                   outside>>

\* the second pool's Run returning early
MultiTypeDoneEarly ==
    /\ ~panicked
    /\ phase = 2
    /\ pc = "wait"
    /\ doneLines' = doneLines + 1
    /\ phase' = 3
    /\ pc' = "exited"
    /\ wpc' = [w \in Workers |-> IF wpc[w] = "none" THEN "none" ELSE "exit"]
    /\ UNCHANGED <<MultiTasks, Concurrency, MultiTaskChan, chans, wg, i, j,
                   run, nworkers, wch, wtask, wrun, procLog, finished,
                   signalled, closes, panicked, stuck, heap, TaskChan,
                   single, lead, outside>>

\* fmt.Println("All tasks completed.") of WorkerPoolWithMultipleTypeOfTasks,
\* after which main returns and the process, with every goroutine, ends.
MultiTypeDone ==
    /\ ~panicked
    /\ phase = 2
    /\ pc = "returned"
    /\ doneLines' = doneLines + 1
    /\ phase' = 3
    /\ pc' = "exited"
    /\ wpc' = [w \in Workers |-> IF wpc[w] = "none" THEN "none" ELSE "exit"]
    /\ UNCHANGED <<MultiTasks, Concurrency, MultiTaskChan, chans, wg, i, j,
                   run, nworkers, wch, wtask, wrun, procLog, finished,
                   signalled, closes, panicked, stuck, heap, TaskChan,
                   single, lead, outside>>

MainStep ==
    \/ OneTypeDone
    \/ NewMultiPool
    \/ MultiTypeDone

NextDemo ==
    \/ Next
    \/ MainStep

\* main.go from the first wp.Run() to the end of main.
SpecDemo == InitDemo /\ [][NextDemo]_vars

\* ------------------------------------------------- fluent pizza builder
\* The strings the program passes to SetSize and SetCrust, and the empty one.
Sizes == {"", "Large", "Regular"}

Crusts == {"", "Thin", "Thick"}

\* The two errors of Build; the nil error is written "".
SizeError == "pizza size is mandatory and cannot be empty"

CrustError == "pizza crust is mandatory and cannot be empty"

\* a Build that does not validate the crust
BuildResultNoCrustCheck(p) ==
    IF p.Size = ""
    THEN [pizza |-> ZeroPizza, err |-> SizeError]
    ELSE [pizza |-> p, err |-> ""]

\* What Build returns when the builder holds p.
BuildResult(p) ==
    IF p.Size = ""
    THEN [pizza |-> ZeroPizza, err |-> SizeError]
    ELSE IF p.Crust = ""
         THEN [pizza |-> ZeroPizza, err |-> CrustError]
         ELSE [pizza |-> p, err |-> ""]

\* builder := &ConcretePizzaBuilder{}
NewBuilder ==
    /\ pizza' = ZeroPizza
    /\ plast' = "new"
    /\ UNCHANGED <<pret, poolVars, goVars, carVars>>

SetSize(size) ==
    /\ pizza' = [pizza EXCEPT !.Size = size]
    /\ plast' = "SetSize"
    /\ UNCHANGED <<pret, poolVars, goVars, carVars>>

SetCrust(crust) ==
    /\ pizza' = [pizza EXCEPT !.Crust = crust]
    /\ plast' = "SetCrust"
    /\ UNCHANGED <<pret, poolVars, goVars, carVars>>

AddCheese ==
    /\ pizza' = [pizza EXCEPT !.Cheese = TRUE]
    /\ plast' = "AddCheese"
    /\ UNCHANGED <<pret, poolVars, goVars, carVars>>

AddPepperoni ==
    /\ pizza' = [pizza EXCEPT !.Pepperoni = TRUE]
    /\ plast' = "AddPepperoni"
    /\ UNCHANGED <<pret, poolVars, goVars, carVars>>

AddMushrooms ==
    /\ pizza' = [pizza EXCEPT !.Mushrooms = TRUE]
    /\ plast' = "AddMushrooms"
    /\ UNCHANGED <<pret, poolVars, goVars, carVars>>

Build ==
    /\ pret' = BuildResult(pizza)
    /\ plast' = "Build"
    /\ UNCHANGED <<pizza, poolVars, goVars, carVars>>

\* a Margherita recipe that leaves the crust as it finds it
CreateMargheritaPizzaNoCrust ==
    /\ pizza' = [pizza EXCEPT !.Size = "Large", !.Cheese = TRUE]
    /\ pret' = BuildResult(pizza')
    /\ plast' = "CreateMargheritaPizza"
    /\ UNCHANGED <<poolVars, goVars, carVars>>

\* pizzaBuilder.SetSize("Large").SetCrust("Thin").AddCheese().Build()
CreateMargheritaPizza ==
    /\ pizza' = [pizza EXCEPT !.Size = "Large", !.Crust = "Thin",
                              !.Cheese = TRUE]
    /\ pret' = BuildResult(pizza')
    /\ plast' = "CreateMargheritaPizza"
    /\ UNCHANGED <<poolVars, goVars, carVars>>

\* a mushroom recipe that starts from an empty pizza
CreateMushroomPizzaFresh ==
    /\ pizza' = [ZeroPizza EXCEPT !.Size = "Large", !.Crust = "Thin",
                                  !.Mushrooms = TRUE]
    /\ pret' = BuildResult(pizza')
    /\ plast' = "CreateMushroomPizza"
    /\ UNCHANGED <<poolVars, goVars, carVars>>

\* pizzaBuilder.SetSize("Large").SetCrust("Thin").AddMushrooms().Build()
CreateMushroomPizza ==
    /\ pizza' = [pizza EXCEPT !.Size = "Large", !.Crust = "Thin",
                              !.Mushrooms = TRUE]
    /\ pret' = BuildResult(pizza')
    /\ plast' = "CreateMushroomPizza"
    /\ UNCHANGED <<poolVars, goVars, carVars>>

NextPizza ==
    \/ NewBuilder
    \/ \E size \in Sizes : SetSize(size)
    \/ \E crust \in Crusts : SetCrust(crust)
    \/ AddCheese
    \/ AddPepperoni
    \/ AddMushrooms
    \/ Build
    \/ CreateMargheritaPizza
    \/ CreateMushroomPizza

InitPizza ==
    /\ PoolIdle
    /\ GoIdle
    /\ PizzaIdle
    /\ CarIdle

\* Any sequence of calls on a ConcretePizzaBuilder and on the director.
SpecPizza == InitPizza /\ [][NextPizza]_vars

\* --------------------------------------------------- staged car builder
\* Calls the caller makes on one builder.
MaxCalls == 4

\* The strings the program passes to SetMake and SetColor.
Makes == {"Toyota", "Tesla"}

Colors == {"Blue", "Red"}

Call(op, arg) == [op |-> op, arg |-> arg]

\* NewCarBuilder() hands the caller a MakeStage.
NewCarBuilder ==
    /\ refs = {}
    /\ car' = ZeroCar
    /\ refs' = {"MakeStage"}
    /\ UNCHANGED <<calls, cret, poolVars, goVars, pizzaVars>>

\* Every method returns cb itself, typed as the next stage: the caller gains
\* a value of that interface and keeps the ones it has.
SetMake(make) ==
    /\ "MakeStage" \in refs
    /\ Len(calls) < MaxCalls
    /\ car' = [car EXCEPT !.Make = make]
    /\ refs' = refs \cup {"ColorStage"}
    /\ calls' = Append(calls, Call("SetMake", make))
    /\ UNCHANGED <<cret, poolVars, goVars, pizzaVars>>

SetColor(color) ==
    /\ "ColorStage" \in refs
    /\ Len(calls) < MaxCalls
    /\ car' = [car EXCEPT !.Color = color]
    /\ refs' = refs \cup {"OptionalStage"}
    /\ calls' = Append(calls, Call("SetColor", color))
    /\ UNCHANGED <<cret, poolVars, goVars, pizzaVars>>

WithGPS ==
    /\ "OptionalStage" \in refs
    /\ Len(calls) < MaxCalls
    /\ car' = [car EXCEPT !.HasGPS = TRUE]
    /\ calls' = Append(calls, Call("WithGPS", ""))
    /\ UNCHANGED <<refs, cret, poolVars, goVars, pizzaVars>>

MakeElectric ==
    /\ "OptionalStage" \in refs
    /\ Len(calls) < MaxCalls
    /\ car' = [car EXCEPT !.IsElectric = TRUE]
    /\ calls' = Append(calls, Call("MakeElectric", ""))
    /\ UNCHANGED <<refs, cret, poolVars, goVars, pizzaVars>>

\* CarBuilder.Build
CarBuilderBuild ==
    /\ "OptionalStage" \in refs
    /\ Len(calls) < MaxCalls
    /\ cret' = car
    /\ calls' = Append(calls, Call("Build", ""))
    /\ UNCHANGED <<car, refs, poolVars, goVars, pizzaVars>>

NextCar ==
    \/ NewCarBuilder
    \/ \E make \in Makes : SetMake(make)
    \/ \E color \in Colors : SetColor(color)
    \/ WithGPS
    \/ MakeElectric
    \/ CarBuilderBuild

InitCar ==
    /\ PoolIdle
    /\ GoIdle
    /\ PizzaIdle
    /\ CarIdle

\* Every call sequence the three stage interfaces admit on one builder.
SpecCar == InitCar /\ [][NextCar]_vars

\* ------------------------------------------------- go-concurrency demos
\* wait-groups/README.md: the loop bounds of the two functions.
NumWithWaitGroup == 4

NumWithoutWaitGroup == 3

Programs ==
    {"withWaitGroup", "withoutWaitGroup", "unbuffered", "buffered",
     "sendOnly", "hello", "squares"}

\* The first statement of each program's main goroutine.
Entry(p) ==
    CASE p = "unbuffered" -> "go"
      [] p = "buffered" -> "send1"
      [] p = "sendOnly" -> "go"
      [] p = "hello" -> "add"
      [] OTHER -> "loop"

\* fmt.Printf("Worker %d starting\n", id) and ("Worker %d done\n", id)
WorkerLine(id, what) == "Worker " \o ToString(id) \o " " \o what

\* fmt.Println("Received:", msg): the operands separated by a space
ReceivedLine(msg) == "Received:" \o " " \o msg

\* main() has called the demo function; an unbuffered ch has been made.
InitGo ==
    /\ PoolIdle
    /\ PizzaIdle
    /\ CarIdle
    /\ prog \in Programs
    /\ mpc = Entry(prog)
    /\ gpc = [g \in Goroutines |-> "none"]
    /\ di = 1
    /\ dwg = 0
    /\ dch = ""
    /\ out = <<>>
    /\ dbuf = <<>>
    /\ dclosed = FALSE
    /\ dval = 0

\* wg.Wait() letting main through one worker early
WgWaitReadyEarly == dwg <= 1

\* wg.Wait() unblocks when the counter is zero
WgWaitReady == dwg = 0

\* concurrencyWithWaitGroup: loop test, then wg.Add(1)
WgAdd ==
    /\ prog = "withWaitGroup"
    /\ mpc = "loop"
    /\ di <= NumWithWaitGroup
    /\ dwg' = dwg + 1
    /\ mpc' = "go"
    /\ UNCHANGED <<prog, gpc, di, dch, out, goChan, poolVars,
                   pizzaVars, carVars>>

\* go workerWithWaitGroup(i, &wg); i++
WgGo ==
    /\ prog = "withWaitGroup"
    /\ mpc = "go"
    /\ gpc' = [gpc EXCEPT ![di] = "start"]
    /\ di' = di + 1
    /\ mpc' = "loop"
    /\ UNCHANGED <<prog, dwg, dch, out, goChan, poolVars, pizzaVars, carVars>>

\* loop exit, then wg.Wait()
WgWait ==
    /\ prog = "withWaitGroup"
    /\ mpc = "loop"
    /\ di > NumWithWaitGroup
    /\ WgWaitReady
    /\ mpc' = "print"
    /\ UNCHANGED <<prog, gpc, di, dwg, dch, out, goChan, poolVars, pizzaVars,
                   carVars>>

\* fmt.Println("All workers completed")
WgPrintCompleted ==
    /\ prog = "withWaitGroup"
    /\ mpc = "print"
    /\ out' = Append(out, "All workers completed")
    /\ mpc' = "ret"
    /\ UNCHANGED <<prog, gpc, di, dwg, dch, goChan, poolVars,
                   pizzaVars, carVars>>

\* concurrencyWithoutWaitGroup: go worker(i); i++
NoWgGo ==
    /\ prog = "withoutWaitGroup"
    /\ mpc = "loop"
    /\ di <= NumWithoutWaitGroup
    /\ gpc' = [gpc EXCEPT ![di] = "start"]
    /\ di' = di + 1
    /\ UNCHANGED <<prog, mpc, dwg, dch, out, goChan, poolVars,
                   pizzaVars, carVars>>

\* loop exit, then fmt.Println("All workers started")
NoWgPrintStarted ==
    /\ prog = "withoutWaitGroup"
    /\ mpc = "loop"
    /\ di > NumWithoutWaitGroup
    /\ out' = Append(out, "All workers started")
    /\ mpc' = "ret"
    /\ UNCHANGED <<prog, gpc, di, dwg, dch, goChan, poolVars,
                   pizzaVars, carVars>>

\* a return from main that first waits for every goroutine to end
MainExitJoins ==
    /\ mpc = "ret"
    /\ \A g \in Goroutines : gpc[g] \in {"none", "exit"}
    /\ mpc' = "exit"
    /\ UNCHANGED <<prog, gpc, di, dwg, dch, out, goChan, poolVars, pizzaVars,
                   carVars>>

\* The demo function returns to main(), main() returns and the process
\* ends; goroutines still running are not waited for.
MainExit ==
    /\ mpc = "ret"
    /\ mpc' = "exit"
    /\ UNCHANGED <<prog, gpc, di, dwg, dch, out, goChan, poolVars, pizzaVars,
                   carVars>>

\* worker / workerWithWaitGroup: fmt.Printf("Worker %d starting\n", id)
WorkerStarting(g) ==
    /\ prog \in {"withWaitGroup", "withoutWaitGroup"}
    /\ mpc # "exit"
    /\ gpc[g] = "start"
    /\ out' = Append(out, WorkerLine(g, "starting"))
    /\ gpc' = [gpc EXCEPT ![g] = "sleep"]
    /\ UNCHANGED <<prog, mpc, di, dwg, dch, goChan, poolVars,
                   pizzaVars, carVars>>

\* time.Sleep is over; fmt.Printf("Worker %d done\n", id).  worker() ends
\* here, workerWithWaitGroup() has its deferred call left.
WorkerDoneLine(g) ==
    /\ mpc # "exit"
    /\ gpc[g] = "sleep"
    /\ out' = Append(out, WorkerLine(g, "done"))
    /\ gpc' = [gpc EXCEPT ![g] =
                  IF prog = "withWaitGroup" THEN "defer" ELSE "exit"]
    /\ UNCHANGED <<prog, mpc, di, dwg, dch, goChan, poolVars,
                   pizzaVars, carVars>>

\* defer wg.Done()
DeferredDone(g) ==
    /\ mpc # "exit"
    /\ gpc[g] = "defer"
    /\ dwg' = dwg - 1
    /\ gpc' = [gpc EXCEPT ![g] = "exit"]
    /\ UNCHANGED <<prog, mpc, di, dch, out, goChan, poolVars,
                   pizzaVars, carVars>>

\* unbuffered-channels.go: go func() {...}()
UbGo ==
    /\ prog = "unbuffered"
    /\ mpc = "go"
    /\ gpc' = [gpc EXCEPT ![1] = "start"]
    /\ mpc' = "waiting"
    /\ UNCHANGED <<prog, di, dwg, dch, out, goChan, poolVars,
                   pizzaVars, carVars>>

\* fmt.Println("Waiting to receive...")
UbPrintWaiting ==
    /\ prog = "unbuffered"
    /\ mpc = "waiting"
    /\ out' = Append(out, "Waiting to receive...")
    /\ mpc' = "recv"
    /\ UNCHANGED <<prog, gpc, di, dwg, dch, goChan, poolVars,
                   pizzaVars, carVars>>

\* the goroutine: fmt.Println("Sending message...")
UbPrintSending ==
    /\ prog = "unbuffered"
    /\ mpc # "exit"
    /\ gpc[1] = "start"
    /\ out' = Append(out, "Sending message...")
    /\ gpc' = [gpc EXCEPT ![1] = "send"]
    /\ UNCHANGED <<prog, mpc, di, dwg, dch, goChan, poolVars,
                   pizzaVars, carVars>>

\* a send that completes with no receiver waiting, and whose value is lost
\* if the receiver is not there
SendAlone ==
    /\ prog = "unbuffered"
    /\ mpc # "exit"
    /\ gpc[1] = "send"
    /\ gpc' = [gpc EXCEPT ![1] = "sent"]
    /\ IF mpc = "recv"
       THEN /\ dch' = "Hi from goroutine"
            /\ mpc' = "print"
       ELSE UNCHANGED <<dch, mpc>>
    /\ UNCHANGED <<prog, di, dwg, out, goChan, poolVars, pizzaVars, carVars>>

\* a receive that completes but leaves msg empty
RendezvousDropsValue ==
    /\ prog = "unbuffered"
    /\ gpc[1] = "send"
    /\ mpc = "recv"
    /\ gpc' = [gpc EXCEPT ![1] = "sent"]
    /\ mpc' = "print"
    /\ UNCHANGED <<prog, di, dwg, dch, out, goChan, poolVars,
                   pizzaVars, carVars>>

\* ch <- "Hi from goroutine" and msg := <-ch: on an unbuffered channel
\* each blocks until the other side is there, then the value passes and
\* both go on.
Rendezvous ==
    /\ prog = "unbuffered"
    /\ gpc[1] = "send"
    /\ mpc = "recv"
    /\ dch' = "Hi from goroutine"
    /\ gpc' = [gpc EXCEPT ![1] = "sent"]
    /\ mpc' = "print"
    /\ UNCHANGED <<prog, di, dwg, out, goChan, poolVars, pizzaVars, carVars>>

\* the goroutine: fmt.Println("Message sent!"), then it ends
UbPrintSent ==
    /\ prog = "unbuffered"
    /\ mpc # "exit"
    /\ gpc[1] = "sent"
    /\ out' = Append(out, "Message sent!")
    /\ gpc' = [gpc EXCEPT ![1] = "exit"]
    /\ UNCHANGED <<prog, mpc, di, dwg, dch, goChan, poolVars,
                   pizzaVars, carVars>>

\* fmt.Println("Received:", msg)
UbPrintReceived ==
    /\ prog = "unbuffered"
    /\ mpc = "print"
    /\ out' = Append(out, ReceivedLine(dch))
    /\ mpc' = "ret"
    /\ UNCHANGED <<prog, gpc, di, dwg, dch, goChan, poolVars,
                   pizzaVars, carVars>>

\* ------------------------------------------------ buffered-channels.go
\* ch := make(chan int, 2)
BufferedCap == 2

\* fmt.Println("Receiving:", <-ch): the operands separated by a space
ReceivingLine(v) == "Receiving:" \o " " \o ToString(v)

\* A send on the buffered channel is ready while the buffer has room.
BufSendReady == Len(dbuf) < BufferedCap

\* ch <- 1, ch <- 2
BufSend(n) ==
    /\ prog = "buffered"
    /\ mpc = "send" \o ToString(n)
    /\ BufSendReady
    /\ dbuf' = Append(dbuf, n)
    /\ mpc' = "sent" \o ToString(n)
    /\ UNCHANGED <<prog, gpc, di, dwg, dch, out, dclosed, dval, poolVars,
                   pizzaVars, carVars>>

\* fmt.Println("Sent 1"), fmt.Println("Sent 2")
BufPrintSent(n) ==
    /\ prog = "buffered"
    /\ mpc = "sent" \o ToString(n)
    /\ out' = Append(out, "Sent " \o ToString(n))
    /\ mpc' = IF n = 1 THEN "send2" ELSE "recv1"
    /\ UNCHANGED <<prog, gpc, di, dwg, dch, goChan, poolVars,
                   pizzaVars, carVars>>

\* a receive that takes the value sent last
BufReceiveLast(n) ==
    /\ prog = "buffered"
    /\ mpc = "recv" \o ToString(n)
    /\ Len(dbuf) > 0
    /\ out' = Append(out, ReceivingLine(dbuf[Len(dbuf)]))
    /\ dbuf' = SubSeq(dbuf, 1, Len(dbuf) - 1)
    /\ mpc' = IF n = 1 THEN "recv2" ELSE "ret"
    /\ UNCHANGED <<prog, gpc, di, dwg, dch, dclosed, dval, poolVars,
                   pizzaVars, carVars>>

\* fmt.Println("Receiving:", <-ch): the receive takes the oldest value of
\* the buffer and blocks while there is none
BufReceive(n) ==
    /\ prog = "buffered"
    /\ mpc = "recv" \o ToString(n)
    /\ Len(dbuf) > 0
    /\ out' = Append(out, ReceivingLine(Head(dbuf)))
    /\ dbuf' = Tail(dbuf)
    /\ mpc' = IF n = 1 THEN "recv2" ELSE "ret"
    /\ UNCHANGED <<prog, gpc, di, dwg, dch, dclosed, dval, poolVars,
                   pizzaVars, carVars>>

\* ----------------------------- buffered-channels.go: send-only channels
\* ch <- 42
SentValue == 42

\* go SendData(ch), with `defer close(ch)` registered before it
SoGo ==
    /\ prog = "sendOnly"
    /\ mpc = "go"
    /\ gpc' = [gpc EXCEPT ![1] = "send"]
    /\ mpc' = "recv"
    /\ UNCHANGED <<prog, di, dwg, dch, out, goChan, poolVars,
                   pizzaVars, carVars>>

\* SendData's ch <- 42 and main's <-ch, on an unbuffered channel
SoRendezvous ==
    /\ prog = "sendOnly"
    /\ gpc[1] = "send"
    /\ mpc = "recv"
    /\ dval' = SentValue
    /\ gpc' = [gpc EXCEPT ![1] = "sent"]
    /\ mpc' = "print"
    /\ UNCHANGED <<prog, di, dwg, dch, out, dbuf, dclosed, poolVars,
                   pizzaVars, carVars>>

\* main: fmt.Println("Received:", <-ch), once the value is there
SoPrintReceived ==
    /\ prog = "sendOnly"
    /\ mpc = "print"
    /\ out' = Append(out, ReceivedLine(ToString(dval)))
    /\ mpc' = "close"
    /\ UNCHANGED <<prog, gpc, di, dwg, dch, goChan, poolVars,
                   pizzaVars, carVars>>

\* main returns: the deferred close(ch) runs
SoClose ==
    /\ prog = "sendOnly"
    /\ mpc = "close"
    /\ dclosed' = TRUE
    /\ mpc' = "ret"
    /\ UNCHANGED <<prog, gpc, di, dwg, dch, out, dbuf, dval, poolVars,
                   pizzaVars, carVars>>

\* SendData: fmt.Println("Sent 42 to channel"), then it ends
SoPrintSent ==
    /\ prog = "sendOnly"
    /\ mpc # "exit"
    /\ gpc[1] = "sent"
    /\ out' = Append(out, "Sent " \o ToString(SentValue) \o " to channel")
    /\ gpc' = [gpc EXCEPT ![1] = "exit"]
    /\ UNCHANGED <<prog, mpc, di, dwg, dch, goChan, poolVars,
                   pizzaVars, carVars>>

\* --------------------------------- part_002: a goroutine and a WaitGroup
\* The argument of print().
HelloStr == "Hello from a goroutine!"

\* wg.Add(1)
HelloAdd ==
    /\ prog = "hello"
    /\ mpc = "add"
    /\ dwg' = dwg + 1
    /\ mpc' = "go"
    /\ UNCHANGED <<prog, gpc, di, dch, out, goChan, poolVars,
                   pizzaVars, carVars>>

\* go func() {...}()
HelloGo ==
    /\ prog = "hello"
    /\ mpc = "go"
    /\ gpc' = [gpc EXCEPT ![1] = "hello"]
    /\ mpc' = "wait"
    /\ UNCHANGED <<prog, di, dwg, dch, out, goChan, poolVars,
                   pizzaVars, carVars>>

\* wg.Wait()
HelloWait ==
    /\ prog = "hello"
    /\ mpc = "wait"
    /\ WgWaitReady
    /\ mpc' = "print"
    /\ UNCHANGED <<prog, gpc, di, dwg, dch, out, goChan, poolVars,
                   pizzaVars, carVars>>

\* println("Main function completed.")
HelloPrintCompleted ==
    /\ prog = "hello"
    /\ mpc = "print"
    /\ out' = Append(out, "Main function completed.")
    /\ mpc' = "ret"
    /\ UNCHANGED <<prog, gpc, di, dwg, dch, goChan, poolVars,
                   pizzaVars, carVars>>

\* print(str): fmt.Println(str)
HelloPrint ==
    /\ prog = "hello"
    /\ mpc # "exit"
    /\ gpc[1] = "hello"
    /\ out' = Append(out, HelloStr)
    /\ gpc' = [gpc EXCEPT ![1] = "again"]
    /\ UNCHANGED <<prog, mpc, di, dwg, dch, goChan, poolVars,
                   pizzaVars, carVars>>

\* print(str): the first sleep is over; fmt.Println("Again " + str)
HelloPrintAgain ==
    /\ prog = "hello"
    /\ mpc # "exit"
    /\ gpc[1] = "again"
    /\ out' = Append(out, "Again " \o HelloStr)
    /\ gpc' = [gpc EXCEPT ![1] = "done"]
    /\ UNCHANGED <<prog, mpc, di, dwg, dch, goChan, poolVars,
                   pizzaVars, carVars>>

\* a goroutine that calls wg.Done() before its second line
HelloDoneEarly ==
    /\ prog = "hello"
    /\ mpc # "exit"
    /\ gpc[1] = "again"
    /\ dwg' = dwg - 1
    /\ gpc' = [gpc EXCEPT ![1] = "exit"]
    /\ UNCHANGED <<prog, mpc, di, dch, out, goChan, poolVars,
                   pizzaVars, carVars>>

\* print() returns after its second sleep; wg.Done(); the goroutine ends
HelloDone ==
    /\ prog = "hello"
    /\ mpc # "exit"
    /\ gpc[1] = "done"
    /\ dwg' = dwg - 1
    /\ gpc' = [gpc EXCEPT ![1] = "exit"]
    /\ UNCHANGED <<prog, mpc, di, dch, out, goChan, poolVars,
                   pizzaVars, carVars>>

\* --------------------------------------------- part_001: the squares demo
\* nums := []int{1, 2, 3, 4, 5, 6, 7, 8, 9}
SquaresInput == <<1, 2, 3, 4, 5, 6, 7, 8, 9>>

\* The inputs the model runs with.
Nums == SubSeq(SquaresInput, 1, Min(Len(SquaresInput), SquaresMaxNums))

\* a goroutine that doubles its input
Double(x) == x + x

\* x * x
Square(x) == x * x

\* a results channel one slot short
SquaresCapShort == Len(Nums) - 1

\* results := make(chan int, len(nums))
SquaresCap == Len(Nums)

\* fmt.Println("Result:", r)
ResultLine(r) == "Result:" \o " " \o ToString(r)

\* loop test, then wg.Add(1)
SqAdd ==
    /\ prog = "squares"
    /\ mpc = "loop"
    /\ di <= Len(Nums)
    /\ dwg' = dwg + 1
    /\ mpc' = "go"
    /\ UNCHANGED <<prog, gpc, di, dch, out, goChan, poolVars,
                   pizzaVars, carVars>>

\* go func(x int) {...}(n): goroutine di runs with x = Nums[di]
SqGo ==
    /\ prog = "squares"
    /\ mpc = "go"
    /\ gpc' = [gpc EXCEPT ![di] = "send"]
    /\ di' = di + 1
    /\ mpc' = "loop"
    /\ UNCHANGED <<prog, dwg, dch, out, goChan, poolVars,
                   pizzaVars, carVars>>

\* loop exit, then wg.Wait()
SqWait ==
    /\ prog = "squares"
    /\ mpc = "loop"
    /\ di > Len(Nums)
    /\ WgWaitReady
    /\ mpc' = "close"
    /\ UNCHANGED <<prog, gpc, di, dwg, dch, out, goChan, poolVars,
                   pizzaVars, carVars>>

\* close(results)
SqClose ==
    /\ prog = "squares"
    /\ mpc = "close"
    /\ dclosed' = TRUE
    /\ mpc' = "range"
    /\ UNCHANGED <<prog, gpc, di, dwg, dch, out, dbuf, dval, poolVars,
                   pizzaVars, carVars>>

\* for r := range results { fmt.Println("Result:", r) }: one iteration
SqRecvPrint ==
    /\ prog = "squares"
    /\ mpc = "range"
    /\ Len(dbuf) > 0
    /\ out' = Append(out, ResultLine(Head(dbuf)))
    /\ dbuf' = Tail(dbuf)
    /\ UNCHANGED <<prog, mpc, gpc, di, dwg, dch, dclosed, dval, poolVars,
                   pizzaVars, carVars>>

\* the range loop ends when results is closed and drained
SqRangeEnd ==
    /\ prog = "squares"
    /\ mpc = "range"
    /\ Len(dbuf) = 0
    /\ dclosed
    /\ mpc' = "ret"
    /\ UNCHANGED <<prog, gpc, di, dwg, dch, out, goChan, poolVars,
                   pizzaVars, carVars>>

\* results <- x * x: panics on a closed channel (the process dies), blocks
\* while the buffer is full
SqSend(g) ==
    /\ prog = "squares"
    /\ mpc # "exit"
    /\ gpc[g] = "send"
    /\ IF dclosed
       THEN /\ gpc' = [gpc EXCEPT ![g] = "panic"]
            /\ mpc' = "exit"
            /\ UNCHANGED dbuf
       ELSE /\ Len(dbuf) < SquaresCap
            /\ dbuf' = Append(dbuf, Square(Nums[g]))
            /\ gpc' = [gpc EXCEPT ![g] = "defer"]
            /\ UNCHANGED mpc
    /\ UNCHANGED <<prog, di, dwg, dch, out, dclosed, dval, poolVars,
                   pizzaVars, carVars>>

\* The steps of the main goroutine (a receive is a step of the receiver).
GoMainStep ==
    \/ WgAdd
    \/ WgGo
    \/ WgWait
    \/ WgPrintCompleted
    \/ NoWgGo
    \/ NoWgPrintStarted
    \/ UbGo
    \/ UbPrintWaiting
    \/ Rendezvous
    \/ UbPrintReceived
    \/ \E n \in {1, 2} : BufSend(n)
    \/ \E n \in {1, 2} : BufPrintSent(n)
    \/ \E n \in {1, 2} : BufReceive(n)
    \/ SoGo
    \/ SoRendezvous
    \/ SoPrintReceived
    \/ SoClose
    \/ HelloAdd
    \/ HelloGo
    \/ HelloWait
    \/ HelloPrintCompleted
    \/ SqAdd
    \/ SqGo
    \/ SqWait
    \/ SqClose
    \/ SqRecvPrint
    \/ SqRangeEnd
    \/ MainExit

\* The steps of a launched goroutine.
GoroutineStep(g) ==
    \/ WorkerStarting(g)
    \/ WorkerDoneLine(g)
    \/ DeferredDone(g)
    \/ (g = 1 /\ UbPrintSending)
    \/ (g = 1 /\ UbPrintSent)
    \/ (g = 1 /\ SoPrintSent)
    \/ (g = 1 /\ HelloPrint)
    \/ (g = 1 /\ HelloPrintAgain)
    \/ (g = 1 /\ HelloDone)
    \/ SqSend(g)

NextGo ==
    \/ GoMainStep
    \/ \E g \in Goroutines : GoroutineStep(g)

\* One of the go-concurrency demo programs, from the call in main() on.
SpecGo == InitGo /\ [][NextGo]_vars

\* The same under the Go scheduler: a goroutine that can run eventually does.
FairSpecGo ==
    /\ InitGo
    /\ [][NextGo]_vars
    /\ WF_vars(GoMainStep)
    /\ \A g \in Goroutines : WF_vars(GoroutineStep(g))

\* ---------------------------------------- workerpool.go: the single-type pool
\* Everything but the WorkerPool of workerpool.go.
notSingle == <<MultiTasks, Concurrency, MultiTaskChan, chans, wg, pc, i, j,
               run, nworkers, wpc, wch, wtask, wrun, procLog, finished,
               signalled, closes, panicked, heap, stuck, phase, TaskChan,
               doneLines, lead, outside>>

\* make(chan Task, len(wp.Tasks))
SingleChanCapShort == Len(single.Tasks) - 1

SingleChanCap == Len(single.Tasks)

\* wp.Run() is called on the pool
SingleCallRun ==
    /\ ~single.panicked
    /\ single.pc = "idle"
    /\ single' = [single EXCEPT !.pc = "make"]
    /\ UNCHANGED notSingle

\* wp.TaskChan = make(chan Task, len(wp.Tasks))
SingleMakeChan ==
    /\ ~single.panicked
    /\ single.pc = "make"
    /\ single' = [single EXCEPT
                     !.ch = [buf |-> <<>>, cap |-> SingleChanCap,
                             closed |-> FALSE],
                     !.TaskChan = 1,
                     !.i = 0,
                     !.pc = "spawn"]
    /\ UNCHANGED notSingle

\* go wp.worker(); i++
SingleStartWorker ==
    /\ ~single.panicked
    /\ single.pc = "spawn"
    /\ single.i < single.Concurrency
    /\ single' = [single EXCEPT
                     !.nworkers = @ + 1,
                     !.wpc[single.nworkers + 1] = "start",
                     !.i = @ + 1]
    /\ UNCHANGED notSingle

\* loop exit, then wp.wg.Add(len(wp.Tasks)); a negative counter panics
SingleAddTasks ==
    /\ ~single.panicked
    /\ single.pc = "spawn"
    /\ ~(single.i < single.Concurrency)
    /\ single' = [single EXCEPT
                     !.wg = @ + Len(single.Tasks),
                     !.panicked = (single.wg + Len(single.Tasks) < 0),
                     !.j = 1,
                     !.pc = "send"]
    /\ UNCHANGED notSingle

\* wp.TaskChan <- task: a copy of the Task value goes into the buffer; the
\* send panics on a closed channel, blocks while the buffer is full and
\* blocks for ever on a nil channel
SingleSend ==
    /\ ~single.panicked
    /\ single.pc = "send"
    /\ single.j <= Len(single.Tasks)
    /\ single.TaskChan # 0
    /\ single.ch.closed \/ Len(single.ch.buf) < single.ch.cap
    /\ single' = IF single.ch.closed
                 THEN [single EXCEPT !.panicked = TRUE]
                 ELSE [single EXCEPT
                          !.ch.buf = Append(@, single.Tasks[single.j]),
                          !.j = @ + 1]
    /\ UNCHANGED notSingle

\* close(wp.TaskChan): panics on a closed channel
SingleClose ==
    /\ ~single.panicked
    /\ single.pc = "send"
    /\ ~(single.j <= Len(single.Tasks))
    /\ single.TaskChan # 0
    /\ single' = IF single.ch.closed
                 THEN [single EXCEPT !.closes = @ + 1, !.panicked = TRUE]
                 ELSE [single EXCEPT !.closes = @ + 1, !.ch.closed = TRUE,
                                     !.pc = "wait"]
    /\ UNCHANGED notSingle

\* wp.wg.Wait(), then Run returns
SingleWait ==
    /\ ~single.panicked
    /\ single.pc = "wait"
    /\ single.wg = 0
    /\ single' = [single EXCEPT !.pc = "returned"]
    /\ UNCHANGED notSingle

\* `for task := range wp.TaskChan`: the range expression is evaluated once,
\* when the goroutine first runs
SingleWorkerRange(w) ==
    /\ ~single.panicked
    /\ single.wpc[w] = "start"
    /\ single' = [single EXCEPT !.wch[w] = single.TaskChan,
                                !.wpc[w] = "range"]
    /\ UNCHANGED notSingle

\* the range loop receives the next buffered value (also after close)
SingleWorkerRecv(w) ==
    /\ ~single.panicked
    /\ single.wpc[w] = "range"
    /\ single.wch[w] # 0
    /\ Len(single.ch.buf) > 0
    /\ single' = [single EXCEPT !.wtask[w] = Head(single.ch.buf),
                                !.ch.buf = Tail(@),
                                !.wpc[w] = "call"]
    /\ UNCHANGED notSingle

\* the range loop ends when the channel is closed and drained
SingleWorkerExit(w) ==
    /\ ~single.panicked
    /\ single.wpc[w] = "range"
    /\ single.wch[w] # 0
    /\ Len(single.ch.buf) = 0
    /\ single.ch.closed
    /\ single' = [single EXCEPT !.wpc[w] = "exit"]
    /\ UNCHANGED notSingle

\* task.Process() is entered
SingleProcessBegin(w) ==
    /\ ~single.panicked
    /\ single.wpc[w] = "call"
    /\ single' = [single EXCEPT
                     !.procLog[single.wtask[w].Id] = Append(@, w),
                     !.wpc[w] = "in"]
    /\ UNCHANGED notSingle

\* task.Process() returns: it prints the Id and sleeps
SingleProcessEnd(w) ==
    /\ ~single.panicked
    /\ single.wpc[w] = "in"
    /\ single' = [single EXCEPT
                     !.finished[single.wtask[w].Id] = @ + 1,
                     !.wpc[w] = "ret"]
    /\ UNCHANGED notSingle

\* wp.wg.Done(): a counter below zero panics
SingleWorkerDone(w) ==
    /\ ~single.panicked
    /\ single.wpc[w] = "ret"
    /\ single' = [single EXCEPT
                     !.wg = @ - 1,
                     !.panicked = (single.wg - 1 < 0),
                     !.signalled[single.wtask[w].Id] = @ + 1,
                     !.wpc[w] = "range",
                     !.wtask[w] = Task(0)]
    /\ UNCHANGED notSingle

SingleRunStep ==
    \/ SingleCallRun
    \/ SingleMakeChan
    \/ SingleStartWorker
    \/ SingleAddTasks
    \/ SingleSend
    \/ SingleClose
    \/ SingleWait

SingleWorkerStep(w) ==
    \/ SingleWorkerRange(w)
    \/ SingleWorkerRecv(w)
    \/ SingleWorkerExit(w)
    \/ SingleProcessBegin(w)
    \/ SingleProcessEnd(w)
    \/ SingleWorkerDone(w)

SingleNext ==
    \/ SingleRunStep
    \/ \E w \in Workers : SingleWorkerStep(w)

\* What an observer of the events start-worker, enqueue, close, dequeue,
\* complete and return sees of each pool: the fields, the queue, the
\* positions of Run and of the workers, and who processed what.  A task is
\* named by its position in the batch, which is its Id in workerpool.go.
SingleView ==
    [N |-> Len(single.Tasks), C |-> single.Concurrency,
     TaskChan |-> single.TaskChan,
     buf |-> [n \in 1..Len(single.ch.buf) |-> single.ch.buf[n].Id],
     cap |-> single.ch.cap, closed |-> single.ch.closed,
     wg |-> single.wg, pc |-> single.pc, i |-> single.i, j |-> single.j,
     nworkers |-> single.nworkers, wpc |-> single.wpc, wch |-> single.wch,
     wtask |-> [w \in Workers |-> single.wtask[w].Id],
     procLog |-> single.procLog, finished |-> single.finished,
     signalled |-> single.signalled, closes |-> single.closes,
     panicked |-> single.panicked]

MultiView ==
    [N |-> Len(MultiTasks), C |-> Concurrency,
     TaskChan |-> MultiTaskChan,
     buf |-> [n \in 1..Len(chans[1].buf) |-> chans[1].buf[n][2]],
     cap |-> chans[1].cap, closed |-> chans[1].closed,
     wg |-> wg, pc |-> pc, i |-> i, j |-> j,
     nworkers |-> nworkers, wpc |-> wpc, wch |-> wch,
     wtask |-> [w \in Workers |-> wtask[w][2]],
     procLog |-> [t \in 1..MaxTasks |-> procLog[<<1, t>>]],
     finished |-> [t \in 1..MaxTasks |-> finished[<<1, t>>]],
     signalled |-> [t \in 1..MaxTasks |-> signalled[<<1, t>>]],
     closes |-> closes[1], panicked |-> panicked]

SameState == MultiView = SingleView

\* Largest batch and concurrency level of the two pools run side by side.
BothMaxTasks == 3

BothMaxConc == 2

\* The two pools side by side on equal N and C.  One of them leads: it takes
\* any step of its own, and the other has to follow with a step that brings
\* it to the same observable state before the leader moves again.
InitBoth ==
    /\ FreshPool
    /\ Len(MultiTasks) <= BothMaxTasks
    /\ Concurrency <= BothMaxConc
    /\ stuck = {}
    /\ single = WorkerPool([t \in 1..Len(MultiTasks) |-> Task(t)],
                           Concurrency)
    /\ lead \in {"multi", "single"}
    /\ GoIdle
    /\ PizzaIdle
    /\ CarIdle

NextBoth ==
    \/ (lead = "multi" /\ SameState /\ Next)
    \/ (lead = "multi" /\ ~SameState /\ SingleNext /\ SameState')
    \/ (lead = "single" /\ SameState /\ SingleNext)
    \/ (lead = "single" /\ ~SameState /\ Next /\ SameState')

SpecBoth == InitBoth /\ [][NextBoth]_vars

\* ----------------------------------------------------------------- claims
\* The tasks of the batch the current Run is dispatching.
CurrentBatch == {<<run, t>> : t \in 1..Len(MultiTasks)}

\* Workers whose Process call is executing.
InProgress == {w \in Workers : wpc[w] = "in"}

\* Workers that hold a received task (before, in or after Process).
Holding == {w \in Workers : wpc[w] \in {"call", "in", "ret"}}

\* C1: exactly-once processing.  No task ever has Process invoked more than
\* once (so never by two workers), and when Run has returned every task of
\* the batch has had Process invoked exactly once.
ExactlyOnce ==
    /\ \A k \in TaskKeys : Len(procLog[k]) <= 1
    /\ pc = "returned" => \A k \in CurrentBatch : Len(procLog[k]) = 1

\* C1 witness: Run has returned for a single task with several workers.
ExactlyOnceWitness ==
    /\ pc = "returned"
    /\ Len(MultiTasks) = 1
    /\ Concurrency >= 2
    /\ Len(procLog[<<1, 1>>]) = 1

\* C2: completion barrier.  Whenever Run has returned, the counter is zero,
\* every task's Process call has returned, and no worker holds a task whose
\* Process is still to start, is executing, or is still to be signalled.
CompletionBarrier ==
    pc = "returned" =>
        /\ wg = 0
        /\ \A k \in CurrentBatch : finished[k] = 1
        /\ Holding = {}

\* C2 witness: Run has returned after a batch that kept two workers busy.
CompletionBarrierWitness ==
    /\ pc = "returned"
    /\ Len(MultiTasks) >= 2
    /\ \E v, w \in Workers :
         /\ v # w
         /\ procLog[<<1, 1>>] = <<v>>
         /\ procLog[<<1, 2>>] = <<w>>

\* C3: no deadlock.  With at least one worker, under fair scheduling and
\* terminating Process calls, Run eventually returns; and whenever the
\* caller is blocked on the barrier some worker can take a step.
NoDeadlock ==
    /\ [](pc = "wait" /\ wg > 0 /\ Concurrency >= 1 =>
             \E w \in 1..nworkers : ENABLED WorkerStep(w))
    /\ (Concurrency >= 1) ~> (pc = "returned")

\* C3 witness: Run has returned with far more workers than tasks.
NoDeadlockWitness ==
    /\ pc = "returned"
    /\ Len(MultiTasks) >= 1
    /\ Concurrency >= Len(MultiTasks) + 2

\* C4: bounded concurrency.  The number of Process calls in progress never
\* exceeds the concurrency level and never exceeds the batch length.
BoundedConcurrency ==
    /\ Cardinality(InProgress) <= Len(MultiTasks)
    /\ Concurrency >= 0 => Cardinality(InProgress) <= Concurrency
    /\ Concurrency < 0 => InProgress = {}

\* C4 witness: all C >= 2 workers are inside Process while a task still waits.
BoundedConcurrencyWitness ==
    /\ Concurrency >= 2
    /\ Cardinality(InProgress) = Concurrency
    /\ Len(MultiTasks) > Concurrency

\* The level the launch loop counts up to: a negative level launches none.
Launched == IF Concurrency > 0 THEN Concurrency ELSE 0

InBuffer(k) ==
    Cardinality({<<c, p>> \in Runs \X (1..MaxTasks) :
                    p <= Len(chans[c].buf) /\ chans[c].buf[p] = k})

HeldBy(k) == Cardinality({w \in Holding : wtask[w] = k})

\* C6: seal discipline.  The queue is closed at most once and never panics;
\* it is closed only when all N enqueues have been made, it is closed
\* exactly once by the time the caller blocks on the barrier, and every
\* task enqueued so far is in exactly one place: queued, held by a worker,
\* or completed (none is dropped or duplicated).
SealDiscipline ==
    /\ ~panicked
    /\ \A c \in Runs : closes[c] <= 1
    /\ \A c \in Runs : chans[c].closed =>
          /\ c = MultiTaskChan
          /\ closes[c] = 1
          /\ j = Len(MultiTasks) + 1
          /\ pc \in {"wait", "returned"}
    /\ pc \in {"wait", "returned"} => chans[MultiTaskChan].closed
    /\ \A k \in TaskKeys :
          InBuffer(k) + HeldBy(k) + signalled[k] =
              IF /\ k \in CurrentBatch
                 /\ pc \in {"send", "wait", "returned"}
                 /\ k[2] < j
              THEN 1 ELSE 0

\* C6 witness: the queue is sealed while it still holds tasks and the
\* caller is blocked on the barrier.
SealDisciplineWitness ==
    /\ pc = "wait"
    /\ chans[MultiTaskChan].closed
    /\ Len(chans[MultiTaskChan].buf) >= 2
    /\ wg > 0

\* C7: non-blocking producer.  No queue ever holds more than N tasks, and
\* whenever the caller is about to enqueue, the queue is open and has room.
NonBlockingProducer ==
    /\ \A c \in Runs : Len(chans[c].buf) <= Len(MultiTasks)
    /\ pc = "send" /\ MoreToSend =>
          /\ MultiTaskChan # 0
          /\ ~chans[MultiTaskChan].closed
          /\ Len(chans[MultiTaskChan].buf) < chans[MultiTaskChan].cap

\* C7 witness: with no worker at all the caller is about to make its last
\* enqueue into a queue that already holds every other task.
NonBlockingProducerWitness ==
    /\ Concurrency = 0
    /\ Len(MultiTasks) >= 2
    /\ pc = "send"
    /\ j = Len(MultiTasks)
    /\ Len(chans[MultiTaskChan].buf) = Len(MultiTasks) - 1

\* Workers that have been launched and have not terminated.
LiveWorkers == {w \in Workers : wpc[w] \notin {"none", "exit"}}

\* C8: no worker leak.  Under fair scheduling every launched worker
\* eventually terminates (from some point on no worker is alive), and a
\* live worker that cannot take a step is waiting on an empty, open queue.
NoWorkerLeak ==
    /\ <>[](LiveWorkers = {})
    /\ [](\A w \in LiveWorkers :
             ~ENABLED WorkerStep(w) =>
                 /\ wpc[w] = "range"
                 /\ Len(chans[wch[w]].buf) = 0
                 /\ ~chans[wch[w]].closed)

\* C8 witness: with more workers than tasks, a surplus worker that never
\* received a task has terminated, as have all the others.
NoWorkerLeakWitness ==
    /\ Concurrency > Len(MultiTasks)
    /\ Len(MultiTasks) >= 1
    /\ nworkers = Concurrency
    /\ LiveWorkers = {}
    /\ \E w \in 1..nworkers : \A k \in TaskKeys : procLog[k] # <<w>>

\* C9: barrier counter.  The counter is zero until it is raised to N, which
\* happens before anything is enqueued; from then on it equals N minus the
\* number of completion signals; each task is signalled at most once and
\* only after its Process call has returned; the counter is never negative.
BarrierCounter ==
    /\ ~panicked
    /\ wg >= 0
    /\ \A k \in TaskKeys : signalled[k] <= 1 /\ signalled[k] <= finished[k]
    /\ pc \in {"idle", "make", "spawn"} =>
          /\ wg = 0
          /\ \A c \in Runs : chans[c].buf = <<>>
          /\ Holding = {}
          /\ \A k \in TaskKeys : signalled[k] = 0
    /\ pc \in {"send", "wait", "returned"} =>
          wg = Len(MultiTasks)
                 - Cardinality({k \in CurrentBatch : signalled[k] = 1})

\* C9 witness: part of the batch has been signalled and the counter stands
\* strictly between zero and N.
BarrierCounterWitness ==
    /\ pc = "wait"
    /\ Len(MultiTasks) >= 3
    /\ wg = 1
    /\ signalled[<<1, 3>>] = 1
    /\ signalled[<<1, 1>>] = 0

\* The workers that invoked Process on some task of the batch of Run r.
ServedBy(r) ==
    {w \in Workers : \E k \in TaskKeys : k[1] = r /\ procLog[k] = <<w>>}

\* C10: batch lifecycle isolation.  Each Run's queue carries only that
\* Run's tasks; a second Run on the same pool again processes each task
\* exactly once; a worker only ever holds a task of the Run that launched
\* it, so each batch is served by at most C workers.
BatchIsolation ==
    /\ \A c \in Runs : \A p \in 1..Len(chans[c].buf) : chans[c].buf[p][1] = c
    /\ \A k \in TaskKeys : Len(procLog[k]) <= 1
    /\ pc = "returned" => \A k \in CurrentBatch : Len(procLog[k]) = 1
    /\ \A w \in Holding : wtask[w][1] = wrun[w]
    /\ \A r \in Runs : Cardinality(ServedBy(r)) <= Launched

\* What does hold when the pool is run again: the queue of each Run carries
\* only its own tasks, each task is processed exactly once, nothing panics.
ReuseStillExactlyOnce ==
    /\ ~panicked
    /\ \A c \in Runs : \A p \in 1..Len(chans[c].buf) : chans[c].buf[p][1] = c
    /\ \A k \in TaskKeys : Len(procLog[k]) <= 1
    /\ pc = "returned" => \A k \in CurrentBatch : Len(procLog[k]) = 1

\* C11: no abort path.  When the Process call of some task never returns,
\* Run never returns; no task is processed twice; and once nothing can move
\* any more, provided there are more workers than hanging tasks (one hanging
\* task and C >= 2), every other task has been processed exactly once and
\* signalled, while the hanging ones were entered and never left.
NoAbortPath ==
    /\ stuck # {} => pc # "returned"
    /\ \A k \in TaskKeys : Len(procLog[k]) <= 1
    /\ (stuck # {} /\ ~ENABLED Next /\ Cardinality(stuck) < Concurrency) =>
          /\ pc = "wait"
          /\ wg = Cardinality(stuck)
          /\ \A k \in CurrentBatch \ stuck :
                Len(procLog[k]) = 1 /\ finished[k] = 1 /\ signalled[k] = 1
          /\ \A k \in stuck : Len(procLog[k]) = 1 /\ finished[k] = 0

\* C11 witness: two workers, three tasks, the second one hangs; everything
\* has come to rest with the caller still waiting and the others done.
NoAbortPathWitness ==
    /\ ~ENABLED Next
    /\ Concurrency = 2
    /\ Len(MultiTasks) = 3
    /\ stuck = {<<1, 2>>}
    /\ pc = "wait"
    /\ finished[<<1, 1>>] = 1
    /\ finished[<<1, 3>>] = 1

\* C12: no step of Run, of a worker or of a Process call changes a field of a
\* task, the pool's MultiTasks or its Concurrency; and when Run has returned,
\* every task of the batch (email and image tasks mixed) has been processed
\* once and holds the field values it was constructed with.
TaskFrame ==
    /\ [][/\ heap' = heap
          /\ MultiTasks' = MultiTasks
          /\ Concurrency' = Concurrency]_vars
    /\ [](pc = "returned" =>
            \A t \in 1..Len(MultiTasks) :
                /\ Len(procLog[<<run, MultiTasks[t]>>]) = 1
                /\ finished[<<run, MultiTasks[t]>>] = 1
                /\ heap[MultiTasks[t]] = TaskLiteral[t])

TaskFrameWitness ==
    /\ pc = "returned"
    /\ Concurrency = 3
    /\ Len(MultiTasks) = 3
    /\ heap[1].kind = "EmailTask"
    /\ heap[2].kind = "ImageProcessingTask"
    /\ heap[3].Subject = "hello def"
    /\ \A t \in 1..3 : finished[<<1, t>>] = 1
    /\ Cardinality({procLog[<<1, t>>][1] : t \in 1..3}) = 3

\* C13: a pool with Concurrency <= 0 and a non-empty batch is not rejected:
\* Run launches no worker, never panics and never returns; it does not stop
\* before the barrier, and once it is at wp.wg.Wait() nothing can move any
\* more, with all N tasks in the closed queue, the counter at N and no task
\* processed.
MisconfiguredHangs ==
    (Concurrency <= 0 /\ Len(MultiTasks) >= 1) =>
        /\ nworkers = 0
        /\ ~panicked
        /\ pc # "returned"
        /\ \A k \in TaskKeys : procLog[k] = <<>>
        /\ ~ENABLED Next => pc = "wait"
        /\ pc = "wait" =>
              /\ ~ENABLED Next
              /\ chans[MultiTaskChan].closed
              /\ closes[MultiTaskChan] = 1
              /\ Len(chans[MultiTaskChan].buf) = Len(MultiTasks)
              /\ wg = Len(MultiTasks)

MisconfiguredHangsWitness ==
    /\ Concurrency = -1
    /\ Len(MultiTasks) = 2
    /\ pc = "wait"
    /\ chans[1].closed
    /\ chans[1].buf = <<<<1, 1>>, <<1, 2>>>>
    /\ wg = 2
    /\ nworkers = 0

PizzaValidation ==
    /\ [](plast = "Build" =>
            /\ (pret.err # "") <=> (pizza.Size = "" \/ pizza.Crust = "")
            /\ pret.err # "" => pret.pizza = ZeroPizza
            /\ pizza.Size = "" => pret.err = SizeError
            /\ (pizza.Size # "" /\ pizza.Crust = "") => pret.err = CrustError
            /\ pret.err = "" => pret.pizza = pizza)
    /\ [][plast' = "Build" => pizza' = pizza]_vars

\* A Build refused for its crust alone, on a builder that has toppings.
PizzaValidationWitness ==
    /\ plast = "Build"
    /\ pizza.Size = "Large"
    /\ pizza.Crust = ""
    /\ pizza.Cheese
    /\ pret = [pizza |-> ZeroPizza, err |-> CrustError]

\* The calls made so far that are op.
CallsOf(op) == {n \in 1..Len(calls) : calls[n].op = op}

\* The last call of op before position n (0 if none).
LastBefore(op, n) ==
    LET before == {m \in CallsOf(op) : m < n} IN
    IF before = {} THEN 0 ELSE CHOOSE m \in before : \A q \in before : q <= m

\* C16: on one builder the first call is SetMake, the second SetColor, and
\* every later call is WithGPS, MakeElectric or Build; the Car a Build
\* returns has the Make and the Color passed to those first two calls.
StagedOrder ==
    /\ Len(calls) >= 1 => calls[1].op = "SetMake"
    /\ Len(calls) >= 2 => calls[2].op = "SetColor"
    /\ \A n \in 3..Len(calls) : calls[n].op \in {"WithGPS", "MakeElectric", "Build"}
    /\ (Len(calls) >= 3 /\ calls[Len(calls)].op = "Build") =>
          /\ cret.Make = calls[1].arg
          /\ cret.Color = calls[2].arg

\* What the stage interfaces do guarantee (C16): the first call is SetMake,
\* a SetColor comes only after a SetMake, an optional call or a Build only
\* after a SetColor, and a Build returns the arguments of the latest SetMake
\* and SetColor before it.
StagedFirstUse ==
    /\ Len(calls) >= 1 => calls[1].op = "SetMake"
    /\ \A n \in CallsOf("SetColor") : LastBefore("SetMake", n) # 0
    /\ \A n \in 1..Len(calls) :
          calls[n].op \in {"WithGPS", "MakeElectric", "Build"} =>
              LastBefore("SetColor", n) # 0
    /\ (Len(calls) >= 1 /\ calls[Len(calls)].op = "Build") =>
          /\ cret.Make = calls[LastBefore("SetMake", Len(calls))].arg
          /\ cret.Color = calls[LastBefore("SetColor", Len(calls))].arg

\* The position of the first occurrence of a line in the output (0 if none).
Pos(line) ==
    LET at == {n \in 1..Len(out) : out[n] = line} IN
    IF at = {} THEN 0 ELSE CHOOSE n \in at : \A m \in at : n <= m

\* The goroutines that were launched and have not ended.
Running == {g \in Goroutines : gpc[g] \notin {"none", "exit"}}

\* C17: in concurrencyWithWaitGroup the counter is never negative and counts
\* every goroutine that is running, plus the one about to be launched (its
\* Add has been done before the go statement); "All workers completed" comes
\* in the output after the "done" line of each of the 4 workers; and under a
\* fair scheduler the function returns, with that line printed.
WaitGroupDemo ==
    /\ [](prog = "withWaitGroup" =>
            /\ dwg >= 0
            /\ dwg = Cardinality(Running) + (IF mpc = "go" THEN 1 ELSE 0)
            /\ Pos("All workers completed") # 0 =>
                  \A g \in 1..NumWithWaitGroup :
                      /\ Pos(WorkerLine(g, "done")) # 0
                      /\ Pos(WorkerLine(g, "done")) <
                             Pos("All workers completed"))
    /\ (prog = "withWaitGroup") ~>
           (mpc = "exit" /\ Pos("All workers completed") # 0)

WaitGroupDemoWitness ==
    /\ prog = "withWaitGroup"
    /\ mpc = "exit"
    /\ Len(out) = 2 * NumWithWaitGroup + 1
    /\ out[Len(out)] = "All workers completed"
    /\ out[1] = "Worker 4 starting"
    /\ out[Len(out) - 1] = "Worker 1 done"

\* C18: in concurrencyWithoutWaitGroup main never waits for a worker (until
\* the process has ended, main always has a step it can take), "All workers
\* started" is printed once the 3 goroutines are launched, and once main has
\* returned nothing runs any more: the workers' lines that are not out by
\* then are never printed.
WorkersNotAwaited ==
    prog = "withoutWaitGroup" =>
        /\ mpc # "exit" => ENABLED GoMainStep
        /\ mpc = "exit" => ~ENABLED NextGo
        /\ mpc \in {"ret", "exit"} <=> Pos("All workers started") # 0
        /\ Pos("All workers started") # 0 =>
              \A g \in 1..NumWithoutWaitGroup : gpc[g] # "none"

\* The process has ended with no worker having printed anything.
WorkersCutOff ==
    /\ prog = "withoutWaitGroup"
    /\ mpc = "exit"
    /\ out = <<"All workers started">>
    /\ \A g \in 1..NumWithoutWaitGroup : gpc[g] = "start"

\* C19 as stated: when the unbuffered-channel demo ends, its four lines are
\* all out, "Message sent!" before "Received: Hi from goroutine".
DocumentedOutput ==
    (prog = "unbuffered" /\ mpc = "exit") =>
        /\ Pos("Waiting to receive...") # 0
        /\ Pos("Sending message...") # 0
        /\ Pos("Message sent!") # 0
        /\ Pos(ReceivedLine("Hi from goroutine")) # 0
        /\ Pos("Message sent!") < Pos(ReceivedLine("Hi from goroutine"))

\* C19, amended: the output holds only the four documented lines, each at
\* most once; the received line comes after "Waiting to receive..." and
\* after "Sending message..."; "Message sent!" comes after both of these
\* too; and when the program ends, the two opening lines and the received
\* line are out ("Message sent!" may precede the received line, follow it,
\* or be missing).
UnbufferedOutput ==
    prog = "unbuffered" =>
        /\ \A n \in 1..Len(out) :
              out[n] \in {"Waiting to receive...", "Sending message...",
                          "Message sent!", ReceivedLine("Hi from goroutine")}
        /\ \A n, m \in 1..Len(out) : out[n] = out[m] => n = m
        /\ \A l \in {"Message sent!", ReceivedLine("Hi from goroutine")} :
              Pos(l) # 0 =>
                  /\ Pos("Waiting to receive...") \in 1..(Pos(l) - 1)
                  /\ Pos("Sending message...") \in 1..(Pos(l) - 1)
        /\ mpc = "exit" =>
              /\ Pos("Waiting to receive...") # 0
              /\ Pos("Sending message...") # 0
              /\ Pos(ReceivedLine("Hi from goroutine")) # 0

\* The documented output is one of the possible ones.
UnbufferedOutputWitness ==
    /\ prog = "unbuffered"
    /\ mpc = "exit"
    /\ out = <<"Waiting to receive...", "Sending message...",
               "Message sent!", "Received: Hi from goroutine">>

\* C20: in the unbuffered-channel demo "Sending message..." is out before
\* the received line; the goroutine is past its send only if main is past
\* its receive, holding "Hi from goroutine", so "Message sent!" is never out
\* before that; and under a fair scheduler main ends, having received and
\* printed exactly that value.
UnbufferedHandshake ==
    /\ [](prog = "unbuffered" =>
            /\ Pos(ReceivedLine(dch)) # 0 =>
                  Pos("Sending message...") \in 1..(Pos(ReceivedLine(dch)) - 1)
            /\ (gpc[1] \in {"sent", "exit"} \/ Pos("Message sent!") # 0) =>
                  /\ mpc \in {"print", "ret", "exit"}
                  /\ dch = "Hi from goroutine"
            /\ mpc \in {"print", "ret", "exit"} =>
                  /\ dch = "Hi from goroutine"
                  /\ gpc[1] \in {"sent", "exit"}
            /\ mpc \in {"go", "waiting", "recv"} => dch = "")
    /\ (prog = "unbuffered") ~>
           /\ mpc = "exit"
           /\ dch = "Hi from goroutine"
           /\ Pos("Received: Hi from goroutine") # 0

\* main has ended with the value while the goroutine, past its send, had
\* not printed yet.
UnbufferedHandshakeWitness ==
    /\ prog = "unbuffered"
    /\ mpc = "exit"
    /\ gpc[1] = "sent"
    /\ out = <<"Sending message...", "Waiting to receive...",
               "Received: Hi from goroutine">>

\* C21: the buffered-channel demo runs in the main goroutine alone, which
\* always has a step to take until the program ends (neither send finds the
\* buffer of capacity 2 full); the output is at every moment a prefix of
\* "Sent 1", "Sent 2", "Receiving: 1", "Receiving: 2" and is all of it when
\* main returns (the receives are first in, first out); and after the two
\* sends, before any receive, the buffer is full, so that one more send
\* would not be ready and no other goroutine exists to make room.
BufferedDemo ==
    LET expected == <<"Sent 1", "Sent 2", "Receiving: 1", "Receiving: 2">> IN
    prog = "buffered" =>
        /\ Running = {}
        /\ mpc # "exit" => ENABLED GoMainStep
        /\ Len(out) <= Len(expected)
        /\ out = SubSeq(expected, 1, Len(out))
        /\ mpc \in {"ret", "exit"} => out = expected
        /\ mpc = "recv1" =>
              /\ dbuf = <<1, 2>>
              /\ Len(dbuf) = BufferedCap
              /\ ~BufSendReady

BufferedDemoWitness ==
    /\ prog = "buffered"
    /\ mpc = "exit"
    /\ dbuf = <<>>
    /\ out = <<"Sent 1", "Sent 2", "Receiving: 1", "Receiving: 2">>

\* C22: in the send-only channel example, when "Received: 42" is out,
\* "Sent 42 to channel" is out before it.
SentBeforeReceived ==
    (prog = "sendOnly" /\ Pos("Received: 42") # 0) =>
        /\ Pos("Sent 42 to channel") # 0
        /\ Pos("Sent 42 to channel") < Pos("Received: 42")

\* What does hold of the send-only example (C22): main receives 42 and
\* prints it once; "Sent 42 to channel" is printed at most once and only
\* after the value has passed, before or after main's line, or never.
SendOnlyOutput ==
    prog = "sendOnly" =>
        /\ \A n \in 1..Len(out) :
              out[n] \in {"Sent 42 to channel", "Received: 42"}
        /\ \A n, m \in 1..Len(out) : out[n] = out[m] => n = m
        /\ Len(out) > 0 => dval = SentValue
        /\ mpc \in {"close", "ret", "exit"} => Pos("Received: 42") # 0

\* C23: in the goroutine + WaitGroup demo the counter is never negative;
\* when "Main function completed." is out, the goroutine's two lines are
\* out before it, in their order, and the goroutine has called Done and
\* ended; under a fair scheduler main ends, with its line printed.
HelloDemo ==
    /\ [](prog = "hello" =>
            /\ dwg >= 0
            /\ Pos("Main function completed.") # 0 =>
                  /\ Pos("Hello from a goroutine!") = 1
                  /\ Pos("Again Hello from a goroutine!") = 2
                  /\ Pos("Main function completed.") = 3
                  /\ gpc[1] = "exit"
                  /\ dwg = 0)
    /\ (prog = "hello") ~>
           (mpc = "exit" /\ Pos("Main function completed.") # 0)

HelloDemoWitness ==
    /\ prog = "hello"
    /\ mpc = "exit"
    /\ gpc[1] = "exit"
    /\ out = <<"Hello from a goroutine!", "Again Hello from a goroutine!",
               "Main function completed.">>

\* The squares of the inputs the model runs with, as the lines to print.
SquareLines ==
    LET squares == <<1, 4, 9, 16, 25, 36, 49, 64, 81>> IN
    {ResultLine(squares[k]) : k \in 1..Len(Nums)}

\* C27: the squares demo prints only "Result:" lines of squares of its
\* inputs, none twice; when its receive loop has ended it has printed one
\* line per input, the squares of all of them; and under a fair scheduler
\* the program ends.  (The order of the lines is that of the sends.)
SquaresResult ==
    /\ [](prog = "squares" =>
            /\ \A n \in 1..Len(out) : out[n] \in SquareLines
            /\ \A n, m \in 1..Len(out) : out[n] = out[m] => n = m
            /\ mpc \in {"ret", "exit"} =>
                  /\ Len(out) = Len(Nums)
                  /\ {out[n] : n \in 1..Len(out)} = SquareLines)
    /\ (prog = "squares") ~> (mpc = "exit")

\* A run that prints the squares in another order than the inputs.
SquaresResultWitness ==
    /\ prog = "squares"
    /\ mpc = "exit"
    /\ Len(out) = Len(Nums)
    /\ out[1] = "Result: 9"
    /\ out[2] = "Result: 1"

\* C28: in the squares demo a goroutine that is at its send finds the
\* results channel open and with room, so the send neither blocks nor
\* panics; the channel is closed only when every goroutine has sent and
\* called Done; the receive loop runs on the closed channel, always has a
\* step to take, and is left with the channel drained.
SquaresChannel ==
    prog = "squares" =>
        /\ \A g \in Goroutines :
              /\ gpc[g] # "panic"
              /\ gpc[g] = "send" => (~dclosed /\ Len(dbuf) < SquaresCap)
        /\ dclosed => \A g \in 1..Len(Nums) : gpc[g] = "exit"
        /\ mpc \in {"range", "ret", "exit"} => dclosed
        /\ mpc = "range" => ENABLED (SqRecvPrint \/ SqRangeEnd)
        /\ mpc \in {"ret", "exit"} => dbuf = <<>>

\* The channel just closed, holding the squares of all inputs.
SquaresChannelWitness ==
    /\ prog = "squares"
    /\ mpc = "range"
    /\ dclosed
    /\ Len(dbuf) = Len(Nums)
    /\ out = <<>>

\* C24: a Run with Concurrency >= 0 never has more than Concurrency workers,
\* has exactly that many from the moment it starts to enqueue, and every
\* goroutine it launched is a worker; a worker is launched only by Run's
\* launch loop, one at a time, before anything has been enqueued, and a
\* worker ends only on the closed and drained queue, never because of the
\* load.
FixedPoolSize ==
    /\ [](Concurrency >= 0 =>
            /\ nworkers <= Concurrency
            /\ Cardinality({w \in Workers : wpc[w] # "none"}) = nworkers
            /\ pc \in {"send", "wait", "returned"} => nworkers = Concurrency
            /\ (j >= 1 \/ \E c \in Runs : chans[c].buf # <<>>) =>
                  nworkers = Concurrency)
    /\ [][nworkers' # nworkers =>
             /\ nworkers' = nworkers + 1
             /\ pc = "spawn"
             /\ j = 0
             /\ \A c \in Runs : chans[c].buf = <<>>]_vars
    /\ [][\A w \in Workers :
             (wpc[w] # "exit" /\ wpc'[w] = "exit") =>
                 /\ chans[wch[w]].closed
                 /\ chans[wch[w]].buf = <<>>]_vars

\* Three workers stand ready for a batch of two before its first enqueue.
FixedPoolSizeWitness ==
    /\ Concurrency = 3
    /\ Len(MultiTasks) = 2
    /\ pc = "send"
    /\ j = 1
    /\ nworkers = 3
    /\ chans[1].buf = <<>>

\* C25: dispatch is first-available: whenever the queue holds a task, every
\* worker that stands at its receive can take it, whichever worker it is
\* and whichever task is at the head; a task is processed by whichever
\* launched worker took it, and nothing ties a worker to a share of the
\* batch (a worker may end having processed all of it, or none of it).
FirstAvailable ==
    /\ \A w \in Workers :
          (wpc[w] = "range" /\ wch[w] # 0 /\ chans[wch[w]].buf # <<>>) =>
              ENABLED WorkerRecv(w)
    /\ \A k \in TaskKeys : \A n \in 1..Len(procLog[k]) :
          procLog[k][n] \in 1..nworkers
    /\ \A w \in Holding : wtask[w] \in CurrentBatch

\* With two workers, the second has processed the three tasks and the first
\* none.
FirstAvailableWitness ==
    /\ Concurrency = 2
    /\ Len(MultiTasks) = 3
    /\ pc = "returned"
    /\ \A t \in 1..3 : procLog[<<1, t>>] = <<2>>
    /\ wpc[1] = "exit"

\* A task has been dequeued: a worker holds it or has signalled it done.
Dequeued(k) == HeldBy(k) > 0 \/ signalled[k] > 0

\* C26: the queue always holds a run of consecutive tasks of the input
\* sequence, in input order, ending with the task enqueued last; a receive
\* takes the task at its head; so a task is dequeued only when every task
\* before it in the input has been.  Completion follows no such order: with
\* two workers a later task can finish while an earlier one is in progress.
DequeueOrder ==
    /\ [](pc \in {"send", "wait", "returned"} =>
            LET buf == chans[MultiTaskChan].buf IN
            buf = [n \in 1..Len(buf) |->
                      <<run, MultiTasks[j - Len(buf) - 1 + n]>>])
    /\ [](\A t \in 1..Len(MultiTasks) :
            (run \in Runs /\ Dequeued(<<run, MultiTasks[t]>>)) =>
                \A u \in 1..(t - 1) : Dequeued(<<run, MultiTasks[u]>>))
    /\ [][\A w \in Workers :
             (wpc[w] = "range" /\ wpc'[w] = "call") =>
                 wtask'[w] = Head(chans[wch[w]].buf)]_vars

\* The second task has finished while the first, dequeued before it, has not.
DequeueOrderWitness ==
    /\ Concurrency = 2
    /\ Len(MultiTasks) >= 2
    /\ finished[<<1, 2>>] = 1
    /\ finished[<<1, 1>>] = 0
    /\ procLog[<<1, 1>>] = <<1>>

\* C29: in main.go, when a task of the email/image batch has started its
\* Process, every task of the single-type batch has finished and the first
\* "All tasks completed." is out; a worker of the first pool never holds a
\* task of the second batch (the two pools are two objects), although it
\* may still be running when the second batch is processed.
BatchesDoNotOverlap ==
    /\ \A t \in 1..MultiTypeTasks :
          procLog[<<2, t>>] # <<>> =>
              /\ doneLines >= 1
              /\ phase >= 2
              /\ \A u \in 1..OneTypeTasks :
                    Len(procLog[<<1, u>>]) = 1 /\ finished[<<1, u>>] = 1
    /\ \A w \in Workers : wrun[w] = 1 => wtask[w][1] \in {0, 1}
    /\ \A t \in 1..MultiTypeTasks : \A n \in 1..Len(procLog[<<2, t>>]) :
          wrun[procLog[<<2, t>>][n]] = 2

\* A task of the second batch is in Process while a worker of the first
\* pool has not yet come to its range statement.
BatchesDoNotOverlapWitness ==
    /\ phase = 2
    /\ doneLines = 1
    /\ \E w \in Workers : wpc[w] = "in" /\ wtask[w] = <<2, 1>>
    /\ \E w \in Workers : wrun[w] = 1 /\ wpc[w] = "start"

\* C30: the single-type WorkerPool.Run of workerpool.go and the multi-type
\* NewWorkerPool.Run of workerpool2.go have, for equal N and C, the same
\* behaviours over start-worker, enqueue, close, dequeue, complete and
\* return: whichever pool takes a step, the other can take a step to the
\* same observable state.  The single-type pool processes each task at most
\* once, exactly once when Run has returned (which it does only after every
\* Process call has returned and signalled), and with C >= 1 it is never
\* stopped short of Run's return.
SameProtocol ==
    /\ (pc = "idle" /\ single.pc = "idle") => SameState
    /\ (lead = "multi" /\ ~SameState) => ENABLED (SingleNext /\ SameState')
    /\ (lead = "single" /\ ~SameState) => ENABLED (Next /\ SameState')
    /\ \A t \in 1..MaxTasks :
          /\ Len(single.procLog[t]) <= 1
          /\ single.signalled[t] <= single.finished[t]
          /\ single.finished[t] <= Len(single.procLog[t])
          /\ single.procLog[t] # <<>> => t <= Len(single.Tasks)
    /\ single.pc = "returned" =>
          \A t \in 1..Len(single.Tasks) :
              /\ Len(single.procLog[t]) = 1
              /\ single.finished[t] = 1
              /\ single.signalled[t] = 1
    /\ (single.Concurrency >= 1 /\ single.pc # "returned") =>
          ENABLED SingleNext
    /\ ~single.panicked

\* Both Runs have returned in the same state, with three tasks on two
\* workers, the first task processed by the second worker.
SameProtocolWitness ==
    /\ SameState
    /\ single.pc = "returned"
    /\ pc = "returned"
    /\ Len(single.Tasks) = 3
    /\ single.Concurrency = 2
    /\ single.procLog[1] = <<2>>
    /\ single.procLog[2] = <<1>>
    /\ procLog[<<1, 1>>] = <<2>>

\* C31: whatever was called on the builder before, CreateMargheritaPizza
\* returns a nil error and a pizza with Size "Large", Crust "Thin" and
\* Cheese true, and CreateMushroomPizza returns a nil error and a pizza
\* with Size "Large", Crust "Thin" and Mushrooms true.
DirectorRecipes ==
    /\ plast = "CreateMargheritaPizza" =>
          /\ pret.err = ""
          /\ pret.pizza.Size = "Large"
          /\ pret.pizza.Crust = "Thin"
          /\ pret.pizza.Cheese
    /\ plast = "CreateMushroomPizza" =>
          /\ pret.err = ""
          /\ pret.pizza.Size = "Large"
          /\ pret.pizza.Crust = "Thin"
          /\ pret.pizza.Mushrooms

\* The Margherita recipe has run on a builder that had been given
\* pepperoni and mushrooms before.
DirectorRecipesWitness ==
    /\ plast = "CreateMargheritaPizza"
    /\ pret.err = ""
    /\ pret.pizza.Pepperoni
    /\ pret.pizza.Mushrooms

\* C32: no operation on a builder clears a topping, a successful Build
\* returns the builder's pizza with every topping it has, and
\* CreateMushroomPizza run right after CreateMargheritaPizza on the same
\* builder returns a pizza with Cheese (and Mushrooms) true.
ToppingsCarryOver ==
    /\ [][plast' # "new" =>
            /\ pizza.Cheese => pizza'.Cheese
            /\ pizza.Pepperoni => pizza'.Pepperoni
            /\ pizza.Mushrooms => pizza'.Mushrooms]_vars
    /\ []((plast \in {"Build", "CreateMargheritaPizza", "CreateMushroomPizza"}
              /\ pret.err = "") => pret.pizza = pizza)
    /\ [][(plast = "CreateMargheritaPizza"
              /\ plast' = "CreateMushroomPizza") =>
            /\ pret'.err = ""
            /\ pret'.pizza.Cheese
            /\ pret'.pizza.Mushrooms]_vars

\* The mushroom recipe has returned a pizza with cheese on it and no
\* pepperoni.
ToppingsCarryOverWitness ==
    /\ plast = "CreateMushroomPizza"
    /\ pret.err = ""
    /\ pret.pizza.Cheese
    /\ pret.pizza.Mushrooms
    /\ ~pret.pizza.Pepperoni

\* The state of the dispatcher: the pool's fields, its queue, its barrier
\* count, Run's loop variables, and the set of tasks processed so far.
Dispatcher ==
    [MultiTasks |-> MultiTasks, Concurrency |-> Concurrency,
     MultiTaskChan |-> MultiTaskChan,
     queue |-> IF MultiTaskChan = 0 THEN NilChan ELSE chans[MultiTaskChan],
     closes |-> IF MultiTaskChan = 0 THEN 0 ELSE closes[MultiTaskChan],
     wg |-> wg, i |-> i, j |-> j, launched |-> nworkers,
     processed |-> {t \in 1..Len(MultiTasks) :
                       run \in Runs /\ finished[<<run, MultiTasks[t]>>] > 0},
     panicked |-> panicked]

\* The one state Run leaves the dispatcher in, for a batch of n tasks and c
\* workers.
FinalDispatcher(n, c) ==
    [MultiTasks |-> [t \in 1..n |-> t], Concurrency |-> c,
     MultiTaskChan |-> 1,
     queue |-> [buf |-> <<>>, cap |-> n, closed |-> TRUE],
     closes |-> 1,
     wg |-> 0, i |-> c, j |-> n + 1, launched |-> c,
     processed |-> 1..n,
     panicked |-> FALSE]

\* C33: for given N and C >= 1, whenever Run has returned the dispatcher is
\* in one and the same state, fixed by N and C alone (queue closed and
\* empty, barrier count zero, every task of the batch processed, each
\* once), whichever workers took which tasks and in whatever order they
\* signalled; and the workers that are still running afterwards do not
\* change it.
ScheduleIndependence ==
    /\ []((pc = "returned" /\ Concurrency >= 1) =>
            /\ Dispatcher = FinalDispatcher(Len(MultiTasks), Concurrency)
            /\ \A t \in 1..Len(MultiTasks) :
                  /\ Len(procLog[<<1, t>>]) = 1
                  /\ finished[<<1, t>>] = 1
                  /\ signalled[<<1, t>>] = 1)
    /\ [][(pc = "returned" /\ Concurrency >= 1) =>
            Dispatcher' = Dispatcher]_vars

\* Run has returned after the second worker took the first and the third
\* task and the first worker the second, while the first worker has not
\* yet seen that the queue is closed.
ScheduleIndependenceWitness ==
    /\ pc = "returned"
    /\ Concurrency = 2
    /\ Len(MultiTasks) = 3
    /\ procLog[<<1, 1>>] = <<2>>
    /\ procLog[<<1, 2>>] = <<1>>
    /\ procLog[<<1, 3>>] = <<2>>
    /\ wpc[1] = "range"
    /\ wpc[2] = "exit"

====
